---- MODULE Spec2Model ----
\* A model of the sda-detector classification engine: the analysis run of
\* DetectionService (src/src/sda_detector/service.py), the per-node analyzers
\* (src/src/sda_detector/models/analyzers/), the description-derived kinds of
\* Finding (models/analysis_domain.py) and the two aggregations of findings
\* into a report (service.py and models/reporting_domain.py).
\*
\* Python strings are TLA+ strings; `in`, lower() and the f-strings are
\* computed character by character with Len, SubSeq and \o.
EXTENDS Integers, Sequences, FiniteSets, TLC

\* ---------------------------------------------------------------------------
\* Bounds
\* ---------------------------------------------------------------------------

\* The largest number of files one analysis run is given.
MaxFiles == 2

\* ---------------------------------------------------------------------------
\* Python string operations
\* ---------------------------------------------------------------------------

\* The lower-case letter of every upper-case ASCII letter
lowercase ==
  [A |-> "a", B |-> "b", C |-> "c", D |-> "d", E |-> "e", F |-> "f", G |-> "g",
   H |-> "h", I |-> "i", J |-> "j", K |-> "k", L |-> "l", M |-> "m", N |-> "n",
   O |-> "o", P |-> "p", Q |-> "q", R |-> "r", S |-> "s", T |-> "t", U |-> "u",
   V |-> "v", W |-> "w", X |-> "x", Y |-> "y", Z |-> "z"]

LowerChars == "abcdefghijklmnopqrstuvwxyz"

Digits == "0123456789"

\* Python: pat in s
Contains(pat, s) ==
  \E i \in 1..(Len(s) - Len(pat) + 1) : SubSeq(s, i, i + Len(pat) - 1) = pat

\* Python: any(p in s for p in pats), pats a sequence
ContainsAny(pats, s) == \E k \in 1..Len(pats) : Contains(pats[k], s)

LowerChar(c) == IF c \in DOMAIN lowercase THEN lowercase[c] ELSE c

RECURSIVE lower_from(_, _)
lower_from(s, i) ==
  IF i > Len(s) THEN ""
  ELSE LowerChar(SubSeq(s, i, i)) \o lower_from(s, i + 1)

\* Python: s.lower()
Lower(s) == lower_from(s, 1)

\* Python: s.isupper() -- at least one cased character and no lowercase one
IsUpper(s) ==
  /\ \E i \in 1..Len(s) : SubSeq(s, i, i) \in DOMAIN lowercase
  /\ \A i \in 1..Len(s) : ~Contains(SubSeq(s, i, i), LowerChars)

RECURSIVE str_of_int(_)
\* Python: str(n) for a natural number n
str_of_int(n) ==
  IF n < 10 THEN SubSeq(Digits, n + 1, n + 1)
  ELSE str_of_int(n \div 10) \o SubSeq(Digits, (n % 10) + 1, (n % 10) + 1)

\* ---------------------------------------------------------------------------
\* Enumerations (models/core_types.py); a StrEnum member is its value
\* ---------------------------------------------------------------------------

ModuleType == {"domain", "infrastructure", "tooling", "framework", "mixed"}

\* The violation kinds Finding.pattern_category can return and the other
\* members of PatternType.
PatternType ==
  {"business_conditionals", "isinstance_usage", "hasattr_usage", "getattr_usage",
   "dict_get_usage", "try_except_usage", "any_type_usage",
   "missing_field_constraints", "primitive_obsession", "enum_value_access",
   "missing_model_config", "no_forward_refs", "manual_validation",
   "anemic_services", "manual_json_serialization"}

PositivePattern ==
  {"pydantic_models", "behavioral_enums", "computed_fields", "validators",
   "protocols", "type_dispatch_tables", "pydantic_validation",
   "pydantic_serialization", "immutable_updates", "field_constraints",
   "model_config_usage", "union_types", "literal_types", "discriminated_unions",
   "forward_references", "annotated_types", "generic_models", "recursive_models",
   "custom_validators", "custom_serializers", "root_validators", "enum_methods",
   "boundary_conditions", "type_checking_imports"}

\* Python None
None == "<None>"

\* ---------------------------------------------------------------------------
\* The host syntax tree (what ast.parse returns)
\* ---------------------------------------------------------------------------
\* A tree is a sequence of nodes, node 1 the Module; a node's position in
\* the sequence is its identity.  children lists the child nodes in
\* ast.iter_child_nodes order.  The parser uses one object for all the
\* occurrences of an expression context or operator (Load, Store, Is, Gt,
\* Not, ...): such an object is one node, numbered after the others, that is
\* a child of every node it occurs in; it has no line number.  A Compare or
\* UnaryOp also keeps its operator as text in op.

N(type, lineno, children) ==
  [type |-> type, lineno |-> lineno, children |-> children,
   name |-> "", id |-> "", attr |-> "", vkind |-> "", value |-> "", op |-> ""]

NDef(type, lineno, name, children) ==
  [N(type, lineno, children) EXCEPT !.name = name]

NName(lineno, id, children) == [N("Name", lineno, children) EXCEPT !.id = id]

NAttribute(lineno, attr, children) ==
  [N("Attribute", lineno, children) EXCEPT !.attr = attr]

\* vkind is "str" for a string constant, "other" for None, numbers, ...;
\* value is the string, or repr() of the other value.
NConstant(lineno, vkind, value) ==
  [N("Constant", lineno, <<>>) EXCEPT !.vkind = vkind, !.value = value]

NOp(type, lineno, op, children) ==
  [N(type, lineno, children) EXCEPT !.op = op]

\* CallsTree:
\*    1  isinstance(a, B)
\*    2  hasattr(a, 'name')
\*    3  getattr(a, 'name')
\*    4  cast(B, a)
\*    5  type(a)
\*    6  Any(a)
\*    7  json.dumps(a)
\*    8  m.model_dump()
\*    9  foo(a)
\*   10  handlers[k](a)
\*   11  Annotated(a)
\*   12  Field(a)
\*   13  m.model_validate(a)
\*   14  m.model_copy()
\*   15  foo(b)
CallsTree ==
  << N("Module", 0, <<2, 7, 12, 17, 22, 26, 30, 35, 39, 43, 49, 53, 57, 62, 66>>),  \* 1
     N("Expr", 1, <<3>>),  \* 2
     N("Call", 1, <<4, 5, 6>>),  \* 3
     NName(1, "isinstance", <<70>>),  \* 4
     NName(1, "a", <<70>>),  \* 5
     NName(1, "B", <<70>>),  \* 6
     N("Expr", 2, <<8>>),  \* 7
     N("Call", 2, <<9, 10, 11>>),  \* 8
     NName(2, "hasattr", <<70>>),  \* 9
     NName(2, "a", <<70>>),  \* 10
     NConstant(2, "str", "name"),  \* 11
     N("Expr", 3, <<13>>),  \* 12
     N("Call", 3, <<14, 15, 16>>),  \* 13
     NName(3, "getattr", <<70>>),  \* 14
     NName(3, "a", <<70>>),  \* 15
     NConstant(3, "str", "name"),  \* 16
     N("Expr", 4, <<18>>),  \* 17
     N("Call", 4, <<19, 20, 21>>),  \* 18
     NName(4, "cast", <<70>>),  \* 19
     NName(4, "B", <<70>>),  \* 20
     NName(4, "a", <<70>>),  \* 21
     N("Expr", 5, <<23>>),  \* 22
     N("Call", 5, <<24, 25>>),  \* 23
     NName(5, "type", <<70>>),  \* 24
     NName(5, "a", <<70>>),  \* 25
     N("Expr", 6, <<27>>),  \* 26
     N("Call", 6, <<28, 29>>),  \* 27
     NName(6, "Any", <<70>>),  \* 28
     NName(6, "a", <<70>>),  \* 29
     N("Expr", 7, <<31>>),  \* 30
     N("Call", 7, <<32, 34>>),  \* 31
     NAttribute(7, "dumps", <<33, 70>>),  \* 32
     NName(7, "json", <<70>>),  \* 33
     NName(7, "a", <<70>>),  \* 34
     N("Expr", 8, <<36>>),  \* 35
     N("Call", 8, <<37>>),  \* 36
     NAttribute(8, "model_dump", <<38, 70>>),  \* 37
     NName(8, "m", <<70>>),  \* 38
     N("Expr", 9, <<40>>),  \* 39
     N("Call", 9, <<41, 42>>),  \* 40
     NName(9, "foo", <<70>>),  \* 41
     NName(9, "a", <<70>>),  \* 42
     N("Expr", 10, <<44>>),  \* 43
     N("Call", 10, <<45, 48>>),  \* 44
     N("Subscript", 10, <<46, 47, 70>>),  \* 45
     NName(10, "handlers", <<70>>),  \* 46
     NName(10, "k", <<70>>),  \* 47
     NName(10, "a", <<70>>),  \* 48
     N("Expr", 11, <<50>>),  \* 49
     N("Call", 11, <<51, 52>>),  \* 50
     NName(11, "Annotated", <<70>>),  \* 51
     NName(11, "a", <<70>>),  \* 52
     N("Expr", 12, <<54>>),  \* 53
     N("Call", 12, <<55, 56>>),  \* 54
     NName(12, "Field", <<70>>),  \* 55
     NName(12, "a", <<70>>),  \* 56
     N("Expr", 13, <<58>>),  \* 57
     N("Call", 13, <<59, 61>>),  \* 58
     NAttribute(13, "model_validate", <<60, 70>>),  \* 59
     NName(13, "m", <<70>>),  \* 60
     NName(13, "a", <<70>>),  \* 61
     N("Expr", 14, <<63>>),  \* 62
     N("Call", 14, <<64>>),  \* 63
     NAttribute(14, "model_copy", <<65, 70>>),  \* 64
     NName(14, "m", <<70>>),  \* 65
     N("Expr", 15, <<67>>),  \* 66
     N("Call", 15, <<68, 69>>),  \* 67
     NName(15, "foo", <<70>>),  \* 68
     NName(15, "b", <<70>>),  \* 69
     N("Load", 0, <<>>) >>  \* 70

\* CondsTree:
\*    1  if TYPE_CHECKING:
\*    2      import x
\*    3  def validate_input(v):
\*    4      if TYPE_CHECKING:
\*    5          pass
\*    6      if v is None:
\*    7          pass
\*    8  def load(self):
\*    9      if self._cache is None:
\*   10          pass
\*   11      if v > 1:
\*   12          pass
\*   13      if err is None:
\*   14          if computed_fields is None:
\*   15              pass
\*   16      if kind == 'computed_fields':
\*   17          count_isinstance_usage(v)
\*   18  def validate_order(o):
\*   19      if o.items:
\*   20          if o.total > 1:
\*   21              pass
\*   22  def check_input(v):
\*   23      if v > 1:
\*   24          pass
CondsTree ==
  << N("Module", 0, <<2, 6, 17, 48, 60>>),  \* 1
     N("If", 1, <<3, 4>>),  \* 2
     NName(1, "TYPE_CHECKING", <<68>>),  \* 3
     N("Import", 2, <<5>>),  \* 4
     N("alias", 2, <<>>),  \* 5
     NDef("FunctionDef", 3, "validate_input", <<7, 9, 12>>),  \* 6
     N("arguments", 0, <<8>>),  \* 7
     N("arg", 3, <<>>),  \* 8
     N("If", 4, <<10, 11>>),  \* 9
     NName(4, "TYPE_CHECKING", <<68>>),  \* 10
     N("Pass", 5, <<>>),  \* 11
     N("If", 6, <<13, 16>>),  \* 12
     NOp("Compare", 6, "is", <<14, 69, 15>>),  \* 13
     NName(6, "v", <<68>>),  \* 14
     NConstant(6, "other", "None"),  \* 15
     N("Pass", 7, <<>>),  \* 16
     NDef("FunctionDef", 8, "load", <<18, 20, 26, 31, 40>>),  \* 17
     N("arguments", 0, <<19>>),  \* 18
     N("arg", 8, <<>>),  \* 19
     N("If", 9, <<21, 25>>),  \* 20
     NOp("Compare", 9, "is", <<22, 69, 24>>),  \* 21
     NAttribute(9, "_cache", <<23, 68>>),  \* 22
     NName(9, "self", <<68>>),  \* 23
     NConstant(9, "other", "None"),  \* 24
     N("Pass", 10, <<>>),  \* 25
     N("If", 11, <<27, 30>>),  \* 26
     NOp("Compare", 11, ">", <<28, 70, 29>>),  \* 27
     NName(11, "v", <<68>>),  \* 28
     NConstant(11, "other", "1"),  \* 29
     N("Pass", 12, <<>>),  \* 30
     N("If", 13, <<32, 35>>),  \* 31
     NOp("Compare", 13, "is", <<33, 69, 34>>),  \* 32
     NName(13, "err", <<68>>),  \* 33
     NConstant(13, "other", "None"),  \* 34
     N("If", 14, <<36, 39>>),  \* 35
     NOp("Compare", 14, "is", <<37, 69, 38>>),  \* 36
     NName(14, "computed_fields", <<68>>),  \* 37
     NConstant(14, "other", "None"),  \* 38
     N("Pass", 15, <<>>),  \* 39
     N("If", 16, <<41, 44>>),  \* 40
     NOp("Compare", 16, "==", <<42, 71, 43>>),  \* 41
     NName(16, "kind", <<68>>),  \* 42
     NConstant(16, "str", "computed_fields"),  \* 43
     N("Expr", 17, <<45>>),  \* 44
     N("Call", 17, <<46, 47>>),  \* 45
     NName(17, "count_isinstance_usage", <<68>>),  \* 46
     NName(17, "v", <<68>>),  \* 47
     NDef("FunctionDef", 18, "validate_order", <<49, 51>>),  \* 48
     N("arguments", 0, <<50>>),  \* 49
     N("arg", 18, <<>>),  \* 50
     N("If", 19, <<52, 54>>),  \* 51
     NAttribute(19, "items", <<53, 68>>),  \* 52
     NName(19, "o", <<68>>),  \* 53
     N("If", 20, <<55, 59>>),  \* 54
     NOp("Compare", 20, ">", <<56, 70, 58>>),  \* 55
     NAttribute(20, "total", <<57, 68>>),  \* 56
     NName(20, "o", <<68>>),  \* 57
     NConstant(20, "other", "1"),  \* 58
     N("Pass", 21, <<>>),  \* 59
     NDef("FunctionDef", 22, "check_input", <<61, 63>>),  \* 60
     N("arguments", 0, <<62>>),  \* 61
     N("arg", 22, <<>>),  \* 62
     N("If", 23, <<64, 67>>),  \* 63
     NOp("Compare", 23, ">", <<65, 70, 66>>),  \* 64
     NName(23, "v", <<68>>),  \* 65
     NConstant(23, "other", "1"),  \* 66
     N("Pass", 24, <<>>),  \* 67
     N("Load", 0, <<>>),  \* 68
     N("Is", 0, <<>>),  \* 69
     N("Gt", 0, <<>>),  \* 70
     N("Eq", 0, <<>>) >>  \* 71

\* AttrsTree:
\*    1  s = Status.ACTIVE.value
\*    2  t = self.value
\*    3  p = priority.value
\*    4  u = order.total
\*    5  w = order.name
\*    6  k = stats.item_count
AttrsTree ==
  << N("Module", 0, <<2, 7, 11, 15, 19, 23>>),  \* 1
     N("Assign", 1, <<3, 4>>),  \* 2
     NName(1, "s", <<27>>),  \* 3
     NAttribute(1, "value", <<5, 28>>),  \* 4
     NAttribute(1, "ACTIVE", <<6, 28>>),  \* 5
     NName(1, "Status", <<28>>),  \* 6
     N("Assign", 2, <<8, 9>>),  \* 7
     NName(2, "t", <<27>>),  \* 8
     NAttribute(2, "value", <<10, 28>>),  \* 9
     NName(2, "self", <<28>>),  \* 10
     N("Assign", 3, <<12, 13>>),  \* 11
     NName(3, "p", <<27>>),  \* 12
     NAttribute(3, "value", <<14, 28>>),  \* 13
     NName(3, "priority", <<28>>),  \* 14
     N("Assign", 4, <<16, 17>>),  \* 15
     NName(4, "u", <<27>>),  \* 16
     NAttribute(4, "total", <<18, 28>>),  \* 17
     NName(4, "order", <<28>>),  \* 18
     N("Assign", 5, <<20, 21>>),  \* 19
     NName(5, "w", <<27>>),  \* 20
     NAttribute(5, "name", <<22, 28>>),  \* 21
     NName(5, "order", <<28>>),  \* 22
     N("Assign", 6, <<24, 25>>),  \* 23
     NName(6, "k", <<27>>),  \* 24
     NAttribute(6, "item_count", <<26, 28>>),  \* 25
     NName(6, "stats", <<28>>),  \* 26
     N("Store", 0, <<>>),  \* 27
     N("Load", 0, <<>>) >>  \* 28

\* LitsTree:
\*    1  def f():
\*    2      x = "pending"
\*    3  y = "pending"
\*    4  z = "unique"
\*    5  c = "a"
\*    6  w = "pending"
LitsTree ==
  << N("Module", 0, <<2, 7, 10, 13, 16>>),  \* 1
     NDef("FunctionDef", 1, "f", <<3, 4>>),  \* 2
     N("arguments", 0, <<>>),  \* 3
     N("Assign", 2, <<5, 6>>),  \* 4
     NName(2, "x", <<19>>),  \* 5
     NConstant(2, "str", "pending"),  \* 6
     N("Assign", 3, <<8, 9>>),  \* 7
     NName(3, "y", <<19>>),  \* 8
     NConstant(3, "str", "pending"),  \* 9
     N("Assign", 4, <<11, 12>>),  \* 10
     NName(4, "z", <<19>>),  \* 11
     NConstant(4, "str", "unique"),  \* 12
     N("Assign", 5, <<14, 15>>),  \* 13
     NName(5, "c", <<19>>),  \* 14
     NConstant(5, "str", "a"),  \* 15
     N("Assign", 6, <<17, 18>>),  \* 16
     NName(6, "w", <<19>>),  \* 17
     NConstant(6, "str", "pending"),  \* 18
     N("Store", 0, <<>>) >>  \* 19

\* FlatTree:
\*    1  a = "ok"
\*    2  b = "ok"
\*    3  n = 5
FlatTree ==
  << N("Module", 0, <<2, 5, 8>>),  \* 1
     N("Assign", 1, <<3, 4>>),  \* 2
     NName(1, "a", <<11>>),  \* 3
     NConstant(1, "str", "ok"),  \* 4
     N("Assign", 2, <<6, 7>>),  \* 5
     NName(2, "b", <<11>>),  \* 6
     NConstant(2, "str", "ok"),  \* 7
     N("Assign", 3, <<9, 10>>),  \* 8
     NName(3, "n", <<11>>),  \* 9
     NConstant(3, "other", "5"),  \* 10
     N("Store", 0, <<>>) >>  \* 11

\* DefsTree:
\*    1  class Order:
\*    2      def total(self):
\*    3          return self.amount
\*    4  async def fetch():
\*    5      pass
\*    6  n = 5
DefsTree ==
  << N("Module", 0, <<2, 9, 12>>),  \* 1
     NDef("ClassDef", 1, "Order", <<3>>),  \* 2
     NDef("FunctionDef", 2, "total", <<4, 6>>),  \* 3
     N("arguments", 0, <<5>>),  \* 4
     N("arg", 2, <<>>),  \* 5
     N("Return", 3, <<7>>),  \* 6
     NAttribute(3, "amount", <<8, 16>>),  \* 7
     NName(3, "self", <<16>>),  \* 8
     NDef("AsyncFunctionDef", 4, "fetch", <<10, 11>>),  \* 9
     N("arguments", 0, <<>>),  \* 10
     N("Pass", 5, <<>>),  \* 11
     N("Assign", 6, <<13, 14>>),  \* 12
     NName(6, "n", <<15>>),  \* 13
     NConstant(6, "other", "5"),  \* 14
     N("Store", 0, <<>>),  \* 15
     N("Load", 0, <<>>) >>  \* 16

\* The files an analysis run can be given: the trees above, by name.
Trees ==
  [calls |-> CallsTree, conds |-> CondsTree, attrs |-> AttrsTree,
   lits |-> LitsTree, flat |-> FlatTree, defs |-> DefsTree]

TreeNames == DOMAIN Trees

RECURSIVE children_between(_, _, _, _)
\* todo.extend(iter_child_nodes(node)) for the nodes at positions
\* first..last of todo, computed by halving the range
children_between(tree, todo, first, last) ==
  IF first > last THEN <<>>
  ELSE IF first = last THEN tree[todo[first]].children
  ELSE LET middle == (first + last) \div 2
       IN children_between(tree, todo, first, middle)
            \o children_between(tree, todo, middle + 1, last)

RECURSIVE walk(_, _, _)
\* ast.walk(tree): breadth-first, todo a queue of nodes, out the nodes
\* yielded so far.  One step takes the whole queue: the nodes of todo are
\* yielded in order and their children queued in order, which is the order
\* in which popleft and extend yield and queue them one by one.
walk(tree, todo, out) ==
  IF todo = <<>> THEN out
  ELSE walk(tree, children_between(tree, todo, 1, Len(todo)), out \o todo)

ast_walk(tree) == walk(tree, <<1>>, <<>>)

RECURSIVE unparse(_, _)
\* ast.unparse(node) for the expressions used as tests: names, attribute
\* access, constants, one-operator comparisons, not, positional calls.
unparse(tree, n) ==
  LET node == tree[n]
      kids == node.children
      RECURSIVE args(_)
      args(k) == IF k > Len(kids) THEN ""
                 ELSE (IF k > 2 THEN ", " ELSE "") \o unparse(tree, kids[k]) \o args(k + 1)
  IN CASE node.type = "Name" -> node.id
       [] node.type = "Attribute" -> unparse(tree, kids[1]) \o "." \o node.attr
       [] node.type = "Constant" ->
            IF node.vkind = "str" THEN "'" \o node.value \o "'" ELSE node.value
       [] node.type = "Compare" ->
            unparse(tree, kids[1]) \o " " \o node.op \o " " \o unparse(tree, kids[3])
       [] node.type = "UnaryOp" -> node.op \o " " \o unparse(tree, kids[2])
       [] node.type = "Call" -> unparse(tree, kids[1]) \o "(" \o args(2) \o ")"

\* ---------------------------------------------------------------------------
\* ASTNodeType (models/core_types.py)
\* ---------------------------------------------------------------------------

ASTNodeType ==
  {"function_def", "class_def", "conditional", "match_case", "call", "attribute", "unknown"}

\* ASTNodeType.from_ast: the lookup table keyed by the node's exact type
from_ast(node) ==
  CASE node.type = "FunctionDef" -> "function_def"
    [] node.type = "AsyncFunctionDef" -> "function_def"
    [] node.type = "ClassDef" -> "class_def"
    [] node.type = "If" -> "conditional"
    [] node.type = "Match" -> "match_case"
    [] node.type = "Call" -> "call"
    [] node.type = "Attribute" -> "attribute"
    [] OTHER -> "unknown"

\* ASTNodeType.create_scope and the _create_*_scope methods it dispatches to
create_scope(node_type, node) ==
  CASE node_type = "function_def" ->
         [scope_type |-> "function", name |-> node.name, line_number |-> node.lineno]
    [] node_type = "class_def" ->
         [scope_type |-> "class", name |-> node.name, line_number |-> node.lineno]
    [] node_type = "conditional" ->
         [scope_type |-> "conditional", name |-> "conditional", line_number |-> node.lineno]
    [] node_type = "match_case" ->
         [scope_type |-> "conditional", name |-> "match_case", line_number |-> node.lineno]
    [] node_type = "call" ->
         [scope_type |-> "function", name |-> "call", line_number |-> node.lineno]
    [] node_type = "attribute" ->
         [scope_type |-> "function", name |-> "attribute", line_number |-> node.lineno]
    [] OTHER ->
         [scope_type |-> "module", name |-> "unknown", line_number |-> node.lineno]

\* The keys of scope_processors that map to _process_with_new_scope
pushes_scope(node_type) ==
  node_type \in {"function_def", "class_def", "conditional", "match_case"}

\* ---------------------------------------------------------------------------
\* DetectionService._build_scope_map (service.py)
\* ---------------------------------------------------------------------------

\* An empty dict
EmptyDict == [k \in {} |-> <<>>]

RECURSIVE visit_node(_, _, _), visit_children(_, _, _, _)
\* visit_node records a copy of current_scopes for the node, then
\* process_with_scope pushes the node's scope (if it creates one), visits
\* the children and pops.  The value is the entries the visit leaves in
\* scope_map: the entry a later visit writes for a node replaces the entry
\* an earlier visit wrote for it (f @@ g keeps f where both have the key).
visit_node(tree, n, current_scopes) ==
  LET node_type == from_ast(tree[n])
      inner == IF pushes_scope(node_type)
               THEN Append(current_scopes, create_scope(node_type, tree[n]))
               ELSE current_scopes
  IN visit_children(tree, tree[n].children, 1, inner) @@ (n :> current_scopes)

\* for child in ast.iter_child_nodes(node): visit_node(child)
visit_children(tree, kids, k, current_scopes) ==
  IF k > Len(kids) THEN EmptyDict
  ELSE visit_children(tree, kids, k + 1, current_scopes)
         @@ visit_node(tree, kids[k], current_scopes)

\* DetectionService._build_scope_map, read as scope_map.get(node, [])
build_scope_map(tree) ==
  LET scope_map == visit_node(tree, 1, <<>>)
  IN [n \in 1..Len(tree) |-> IF n \in DOMAIN scope_map THEN scope_map[n] ELSE <<>>]

\* ---------------------------------------------------------------------------
\* RichAnalysisContext (models/context_domain.py)
\* ---------------------------------------------------------------------------

\* DetectionService._compute_node_context
compute_node_context(n, scope_map, base_context) ==
  [base_context EXCEPT !.scope_stack = scope_map[n]]

\* RichAnalysisContext.current_scope of a context whose scope_stack is not
\* empty; it is None exactly when scope_stack is empty.
current_scope(context) == context.scope_stack[Len(context.scope_stack)]

\* ---------------------------------------------------------------------------
\* Finding (models/analysis_domain.py)
\* ---------------------------------------------------------------------------

Finding(file_path, line_number, description) ==
  [file_path |-> file_path, line_number |-> line_number, description |-> description]

\* The first entry of an ordered indicator table one of whose indicators
\* occurs in the lower-cased description, or None.
first_indicated(table, description) ==
  LET description_lower == Lower(description)
      hits == {k \in 1..Len(table) : ContainsAny(table[k].indicators, description_lower)}
  IN IF hits = {} THEN None
     ELSE table[CHOOSE k \in hits : \A j \in hits : k <= j].kind

\* Finding.pattern_category
pattern_category(finding) ==
  first_indicated(
    << [kind |-> "isinstance_usage", indicators |-> <<"isinstance_usage">>],
       [kind |-> "manual_json_serialization", indicators |-> <<"manual_json_serialization">>],
       [kind |-> "enum_value_access", indicators |-> <<"enum_value_unwrapping", "enum_value_access">>],
       [kind |-> "business_conditionals", indicators |-> <<"business_conditionals">>] >>,
    finding.description)

\* Finding.pattern_type
pattern_type(finding) ==
  first_indicated(
    << [kind |-> "computed_fields", indicators |-> <<"computed_fields">>],
       [kind |-> "pydantic_serialization", indicators |-> <<"pydantic_serialization">>] >>,
    finding.description)

\* ---------------------------------------------------------------------------
\* Call analyzer (models/analyzers/call_analyzer.py)
\* ---------------------------------------------------------------------------

\* A variant of the set below that leaves cast and Any to the default
type_check_functions_builtins_only == {"isinstance", "type", "hasattr", "getattr"}

\* type_check_functions of CallDomain.call_pattern
type_check_functions == {"isinstance", "type", "hasattr", "getattr", "cast", "Any"}

\* json_functions of CallDomain.call_pattern
json_functions == {"dumps", "loads", "dump", "load"}

\* pydantic_functions of CallDomain.call_pattern
pydantic_functions == {"model_dump", "model_validate", "model_copy", "Field"}

\* A variant of the table below whose default is the last named pattern
call_classification_map_pydantic_default(key) ==
  CASE key = <<TRUE, FALSE, FALSE>> -> "type_check"
    [] key = <<FALSE, TRUE, FALSE>> -> "json_operation"
    [] key = <<FALSE, FALSE, TRUE>> -> "pydantic_operation"
    [] key = <<FALSE, FALSE, FALSE>> -> "pydantic_operation"
    [] key = <<TRUE, TRUE, FALSE>> -> "type_check"
    [] key = <<TRUE, FALSE, TRUE>> -> "type_check"
    [] key = <<FALSE, TRUE, TRUE>> -> "json_operation"
    [] key = <<TRUE, TRUE, TRUE>> -> "type_check"

\* classification_map of CallDomain.call_pattern, all 8 keys
call_classification_map(key) ==
  CASE key = <<TRUE, FALSE, FALSE>> -> "type_check"
    [] key = <<FALSE, TRUE, FALSE>> -> "json_operation"
    [] key = <<FALSE, FALSE, TRUE>> -> "pydantic_operation"
    [] key = <<FALSE, FALSE, FALSE>> -> "computed_field"
    [] key = <<TRUE, TRUE, FALSE>> -> "type_check"
    [] key = <<TRUE, FALSE, TRUE>> -> "type_check"
    [] key = <<FALSE, TRUE, TRUE>> -> "json_operation"
    [] key = <<TRUE, TRUE, TRUE>> -> "type_check"

\* A variant of call_pattern that tests whether the function name contains a
\* listed name instead of whether it is one
call_pattern_substring_membership(function_name) ==
  call_classification_map(
    << \E listed \in type_check_functions : Contains(listed, function_name),
       \E listed \in json_functions : Contains(listed, function_name),
       \E listed \in pydantic_functions : Contains(listed, function_name) >>)

\* CallDomain.call_pattern
call_pattern(function_name) ==
  call_classification_map(<< function_name \in type_check_functions,
                             function_name \in json_functions,
                             function_name \in pydantic_functions >>)

\* finding_types of CallPattern.create_finding
call_finding_type(pattern) ==
  CASE pattern = "type_check" -> "isinstance_usage"
    [] pattern = "json_operation" -> "manual_json_serialization"
    [] pattern = "pydantic_operation" -> "pydantic_serialization"
    [] pattern = "computed_field" -> "computed_fields"

\* CallPattern.create_finding
call_create_finding(pattern, file_path, line_number, function_name) ==
  Finding(file_path, line_number, call_finding_type(pattern) \o ": " \o function_name)

\* CallDomain._extract_function_name: the id of a Name, the attr of an
\* Attribute, "unknown_function" for any other func expression.
extract_function_name(tree, n) ==
  LET func == tree[tree[n].children[1]]
  IN CASE func.type = "Name" -> func.id
       [] func.type = "Attribute" -> func.attr
       [] OTHER -> "unknown_function"

\* CallAnalyzer.analyze_node: CallDomain.from_ast, then CallDomain.analyze
call_analyze_node(tree, n, context) ==
  LET function_name == extract_function_name(tree, n)
  IN << call_create_finding(call_pattern(function_name), context.current_file,
                            tree[n].lineno, function_name) >>

\* ---------------------------------------------------------------------------
\* Conditional analyzer (models/analyzers/conditional_analyzer.py)
\* ---------------------------------------------------------------------------

\* ConditionalDomain.is_type_checking
is_type_checking(test_expression) == test_expression = "TYPE_CHECKING"

\* ConditionalDomain.suggests_boundary_logic
suggests_boundary_logic(test_expression) ==
  ContainsAny(<<"error", "exception", "none", "empty", "exists">>, Lower(test_expression))

\* ConditionalDomain.is_lazy_initialization
is_lazy_initialization(test_expression) ==
  ContainsAny(<<"_cache is None", "_initialized", "not self._", "self._ is None">>,
              test_expression)

\* validation_scope of ConditionalDomain.pattern_classification
validation_scope(parent_scope) ==
  /\ parent_scope # None
  /\ parent_scope # ""
  /\ Contains("validate", Lower(parent_scope))

\* A variant of the table below in which a validation scope outranks the
\* type-checking guard
conditional_classification_map_validation_first(key) ==
  CASE key[2] -> "validation_check"
    [] ~key[2] /\ key[1] -> "type_guard"
    [] ~key[2] /\ ~key[1] /\ key[3] -> "lazy_initialization"
    [] ~key[2] /\ ~key[1] /\ ~key[3] /\ key[4] -> "boundary_condition"
    [] OTHER -> "business_logic"

\* classification_map of ConditionalDomain.pattern_classification, all 16
\* keys (is_type_checking, validation_scope, is_lazy_initialization,
\* suggests_boundary_logic)
conditional_classification_map(key) ==
  CASE key = <<TRUE, FALSE, FALSE, FALSE>> -> "type_guard"
    [] key = <<TRUE, FALSE, FALSE, TRUE>> -> "type_guard"
    [] key = <<TRUE, FALSE, TRUE, FALSE>> -> "type_guard"
    [] key = <<TRUE, FALSE, TRUE, TRUE>> -> "type_guard"
    [] key = <<TRUE, TRUE, FALSE, FALSE>> -> "type_guard"
    [] key = <<TRUE, TRUE, FALSE, TRUE>> -> "type_guard"
    [] key = <<TRUE, TRUE, TRUE, FALSE>> -> "type_guard"
    [] key = <<TRUE, TRUE, TRUE, TRUE>> -> "type_guard"
    [] key = <<FALSE, TRUE, FALSE, FALSE>> -> "validation_check"
    [] key = <<FALSE, TRUE, FALSE, TRUE>> -> "validation_check"
    [] key = <<FALSE, TRUE, TRUE, FALSE>> -> "validation_check"
    [] key = <<FALSE, TRUE, TRUE, TRUE>> -> "validation_check"
    [] key = <<FALSE, FALSE, TRUE, FALSE>> -> "lazy_initialization"
    [] key = <<FALSE, FALSE, TRUE, TRUE>> -> "lazy_initialization"
    [] key = <<FALSE, FALSE, FALSE, TRUE>> -> "boundary_condition"
    [] key = <<FALSE, FALSE, FALSE, FALSE>> -> "business_logic"

\* pattern_classification as an ordered list of tests in which the boundary
\* substrings are tried before the lazy-initialization ones
pattern_classification_boundary_before_lazy(test_expression, parent_scope) ==
  IF is_type_checking(test_expression) THEN "type_guard"
  ELSE IF validation_scope(parent_scope) THEN "validation_check"
  ELSE IF suggests_boundary_logic(test_expression) THEN "boundary_condition"
  ELSE IF is_lazy_initialization(test_expression) THEN "lazy_initialization"
  ELSE "business_logic"

\* ConditionalDomain.pattern_classification
pattern_classification(test_expression, parent_scope) ==
  conditional_classification_map(<< is_type_checking(test_expression),
                                    validation_scope(parent_scope),
                                    is_lazy_initialization(test_expression),
                                    suggests_boundary_logic(test_expression) >>)

\* finding_types of ConditionalPattern.create_finding
conditional_finding_type(pattern) ==
  CASE pattern = "type_guard" -> "type_checking_imports"
    [] pattern = "validation_check" -> "boundary_conditions"
    [] pattern = "boundary_condition" -> "boundary_conditions"
    [] pattern = "lazy_initialization" -> "business_conditionals"
    [] pattern = "business_logic" -> "business_conditionals"

\* ConditionalPattern.create_finding
conditional_create_finding(pattern, file_path, line_number, expression) ==
  Finding(file_path, line_number, conditional_finding_type(pattern) \o ": " \o expression)

\* test_expression of ConditionalDomain.from_ast: ast.unparse of the test of
\* an If; a Match has no test attribute and gets "unknown".
test_expression_of(tree, n) ==
  IF tree[n].type = "If" THEN unparse(tree, tree[n].children[1]) ELSE "unknown"

\* parent_scope of ConditionalAnalyzer.analyze_node
parent_scope_of(context) ==
  IF context.scope_stack # <<>> THEN current_scope(context).name ELSE None

\* ConditionalAnalyzer.analyze_node: ConditionalDomain.from_ast, then
\* ConditionalDomain.analyze
conditional_analyze_node(tree, n, context) ==
  LET test_expression == test_expression_of(tree, n)
  IN << conditional_create_finding(
          pattern_classification(test_expression, parent_scope_of(context)),
          context.current_file, tree[n].lineno, test_expression) >>

\* ---------------------------------------------------------------------------
\* Attribute analyzer (models/analyzers/attribute_analyzer.py)
\* ---------------------------------------------------------------------------

\* AttributeDomain.is_enum_unwrapping
is_enum_unwrapping(attribute_name) == attribute_name = "value"

\* suggests_computed_field as `self.attribute_name.lower() in computed_patterns`
suggests_computed_field_whole_name(attribute_name) ==
  \E k \in 1..6 : <<"total", "count", "sum", "avg", "max", "min">>[k] = Lower(attribute_name)

\* AttributeDomain.suggests_computed_field
suggests_computed_field(attribute_name) ==
  ContainsAny(<<"total", "count", "sum", "avg", "max", "min">>, Lower(attribute_name))

\* AttributeDomain.pattern_classification
attribute_pattern_classification(attribute_name) ==
  LET key == << is_enum_unwrapping(attribute_name), suggests_computed_field(attribute_name) >>
  IN CASE key = <<TRUE, TRUE>> -> "enum_unwrapping"
       [] key = <<TRUE, FALSE>> -> "enum_unwrapping"
       [] key = <<FALSE, TRUE>> -> "computed_field_candidate"
       [] key = <<FALSE, FALSE>> -> "normal_access"

\* AttributePattern.create_finding
attribute_create_finding(pattern, file_path, line_number, attribute_name) ==
  CASE pattern = "enum_unwrapping" ->
         << Finding(file_path, line_number, "enum_value_access" \o ": " \o attribute_name) >>
    [] pattern = "computed_field_candidate" ->
         << Finding(file_path, line_number, "computed_fields" \o ": " \o attribute_name) >>
    [] pattern = "normal_access" -> <<>>

\* AttributeAnalyzer.analyze_node: AttributeAnalyzer.from_ast, then
\* AttributeDomain.analyze
attribute_analyze_node(tree, n, context) ==
  attribute_create_finding(attribute_pattern_classification(tree[n].attr),
                           context.current_file, tree[n].lineno, tree[n].attr)

\* ---------------------------------------------------------------------------
\* Literal analyzer (models/analyzers/literal_analyzer.py)
\* ---------------------------------------------------------------------------

\* LiteralDomain._collect_if_string: literals is the dict as a sequence of
\* [literal, lines] entries in insertion order.
collect_if_string(node, literals) ==
  LET is_valid_string == node.vkind = "str" /\ Len(node.value) > 1
      at == {k \in 1..Len(literals) : literals[k].literal = node.value}
  IN IF ~is_valid_string THEN literals
     ELSE IF at = {} THEN Append(literals, [literal |-> node.value, lines |-> <<node.lineno>>])
     ELSE LET k == CHOOSE j \in at : TRUE
          IN [literals EXCEPT ![k].lines = Append(@, node.lineno)]

RECURSIVE collect(_, _, _, _)
\* The loop of LiteralDomain.collect_from_tree over ast.walk(tree)
collect(tree, order, k, literals) ==
  IF k > Len(order) THEN literals
  ELSE collect(tree, order, k + 1,
               IF tree[order[k]].type = "Constant"
               THEN collect_if_string(tree[order[k]], literals)
               ELSE literals)

\* LiteralDomain.collect_from_tree; the loop is run over the Constant nodes of
\* the walk, the only nodes at which its body does anything
collect_from_tree(tree) ==
  collect(tree, SelectSeq(ast_walk(tree), LAMBDA n : tree[n].type = "Constant"), 1, <<>>)

\* A variant of the test below that needs a third occurrence
is_repeated_beyond_twice(line_numbers) == Len(line_numbers) > 2

\* The filter of LiteralDomain.analyze: len(line_numbers) >= 2
is_repeated(line_numbers) == Len(line_numbers) >= 2

RECURSIVE literal_findings_from(_, _, _)
\* LiteralDomain.analyze: one finding per entry that is_repeated, in dict
\* order, at line_numbers[0].
literal_findings_from(literals, k, context) ==
  IF k > Len(literals) THEN <<>>
  ELSE (IF is_repeated(literals[k].lines)
        THEN << Finding(context.current_file, literals[k].lines[1],
                        "string_literal_repetition: '" \o literals[k].literal
                          \o "' appears " \o str_of_int(Len(literals[k].lines)) \o " times") >>
        ELSE <<>>)
       \o literal_findings_from(literals, k + 1, context)

\* LiteralAnalyzer.analyze_tree
analyze_tree(tree, context) == literal_findings_from(collect_from_tree(tree), 1, context)

\* ---------------------------------------------------------------------------
\* Analyzer dispatch and the per-file analysis
\* ---------------------------------------------------------------------------

\* create_analyzer_findings with the definition nodes handed to an analyzer
\* that reports them, in place of `lambda: []`
create_analyzer_findings_reports_definitions(node_type, tree, n, context) ==
  CASE node_type = "conditional" -> conditional_analyze_node(tree, n, context)
    [] node_type = "match_case" -> conditional_analyze_node(tree, n, context)
    [] node_type = "call" -> call_analyze_node(tree, n, context)
    [] node_type = "attribute" -> attribute_analyze_node(tree, n, context)
    [] node_type = "function_def" ->
         << Finding(context.current_file, tree[n].lineno, "computed_fields: " \o tree[n].name) >>
    [] node_type = "class_def" ->
         << Finding(context.current_file, tree[n].lineno, "pydantic_models: " \o tree[n].name) >>
    [] node_type = "unknown" -> <<>>

\* ASTNodeType.create_analyzer_findings
create_analyzer_findings(node_type, tree, n, context) ==
  CASE node_type = "conditional" -> conditional_analyze_node(tree, n, context)
    [] node_type = "match_case" -> conditional_analyze_node(tree, n, context)
    [] node_type = "call" -> call_analyze_node(tree, n, context)
    [] node_type = "attribute" -> attribute_analyze_node(tree, n, context)
    [] node_type = "function_def" -> <<>>
    [] node_type = "class_def" -> <<>>
    [] node_type = "unknown" -> <<>>

\* The findings of the body of the loop of _analyze_ast_pure for every node
per_node_findings(tree, base_context) ==
  LET scope_map == build_scope_map(tree)
  IN [n \in 1..Len(tree) |->
        create_analyzer_findings(from_ast(tree[n]), tree, n,
                                 compute_node_context(n, scope_map, base_context))]

RECURSIVE extend_between(_, _, _, _)
\* findings.extend(node_findings) for the nodes at positions first..last of
\* the walk order, computed by halving the range
extend_between(by_node, order, first, last) ==
  IF first > last THEN <<>>
  ELSE IF first = last THEN by_node[order[first]]
  ELSE LET middle == (first + last) \div 2
       IN extend_between(by_node, order, first, middle)
            \o extend_between(by_node, order, middle + 1, last)

\* findings.extend(node_findings) for the nodes in ast.walk order
extend_in_order(by_node, order, k) == extend_between(by_node, order, k, Len(order))

\* DetectionService._analyze_ast_pure.  findings is the list it returns;
\* by_node and literal keep the node_findings of every loop iteration and
\* the literal_findings it was extended with.
analyze_ast_pure(tree, base_context) ==
  LET by_node == per_node_findings(tree, base_context)
      literal == analyze_tree(tree, base_context)
  IN [by_node |-> by_node, literal |-> literal,
      findings |-> extend_in_order(by_node, ast_walk(tree), 1) \o literal]

\* What a file that produced no tree leaves in by_node and literal
NoTree(findings) == [by_node |-> <<>>, literal |-> <<>>, findings |-> findings]

\* _analyze_file with `return []` in its two except branches
analyze_file_errors_swallowed(file, module_type) ==
  CASE file.outcome = "read_error" -> NoTree(<<>>)
    [] file.outcome = "parse_error" -> NoTree(<<>>)
    [] file.outcome = "ok" ->
         analyze_ast_pure(Trees[file.tree],
                          [current_file |-> file.path, module_type |-> module_type,
                           scope_stack |-> <<>>])

\* DetectionService._analyze_file; outcome is what reading and parsing the
\* file did: "ok", "read_error" (open or read raised) or "parse_error"
\* (ast.parse raised).
analyze_file(file, module_type) ==
  CASE file.outcome = "read_error" -> NoTree(<< Finding(file.path, 0, "file_read_error") >>)
    [] file.outcome = "parse_error" -> NoTree(<< Finding(file.path, 0, "ast_parse_error") >>)
    [] file.outcome = "ok" ->
         analyze_ast_pure(Trees[file.tree],
                          [current_file |-> file.path, module_type |-> module_type,
                           scope_stack |-> <<>>])

\* ---------------------------------------------------------------------------
\* Aggregation
\* ---------------------------------------------------------------------------

\* collection.setdefault(kind, []).append(finding) on a dict
append_to(collection, kind, finding) ==
  IF kind \in DOMAIN collection
  THEN [collection EXCEPT ![kind] = Append(@, finding)]
  ELSE collection @@ (kind :> << finding >>)

\* FindingClassifier.from_finding
from_finding(finding) ==
  LET has_violation == pattern_category(finding) # None
      has_pattern == pattern_type(finding) # None
      key == << has_violation, has_pattern >>
  IN CASE key = <<TRUE, FALSE>> -> "violation"
       [] key = <<FALSE, TRUE>> -> "pattern"
       [] key = <<TRUE, TRUE>> -> "violation"
       [] key = <<FALSE, FALSE>> -> "unknown"

\* FindingClassifier.add_to_collections; a report is [violations, patterns]
add_to_collections(classifier, finding, report) ==
  CASE classifier = "violation" ->
         [report EXCEPT !.violations = append_to(@, pattern_category(finding), finding)]
    [] classifier = "pattern" ->
         [report EXCEPT !.patterns = append_to(@, pattern_type(finding), finding)]
    [] classifier = "unknown" -> report

EmptyReport == [violations |-> EmptyDict, patterns |-> EmptyDict]

RECURSIVE create_report_from(_, _, _)
\* The loop of DetectionService._create_report
create_report_from(findings, k, report) ==
  IF k > Len(findings) THEN report
  ELSE create_report_from(findings, k + 1,
         add_to_collections(from_finding(findings[k]), findings[k], report))

\* DetectionService._create_report
create_report(findings) == create_report_from(findings, 1, EmptyReport)

RECURSIVE from_findings_from(_, _, _)
\* The loop of ArchitectureReport.from_findings: the two ifs are independent
from_findings_from(findings, k, report) ==
  IF k > Len(findings) THEN report
  ELSE LET finding == findings[k]
           with_violation ==
             IF pattern_category(finding) # None
             THEN [report EXCEPT !.violations = append_to(@, pattern_category(finding), finding)]
             ELSE report
           with_pattern ==
             IF pattern_type(finding) # None
             THEN [with_violation EXCEPT !.patterns = append_to(@, pattern_type(finding), finding)]
             ELSE with_violation
       IN from_findings_from(findings, k + 1, with_pattern)

\* ArchitectureReport.from_findings
from_findings(findings) == from_findings_from(findings, 1, EmptyReport)

RECURSIVE total(_, _)
\* sum(len(findings) for findings in collection.values())
total(collection, kinds) ==
  IF kinds = {} THEN 0
  ELSE LET kind == CHOOSE k \in kinds : TRUE
       IN Len(collection[kind]) + total(collection, kinds \ {kind})

\* ArchitectureReport.total_violations
total_violations(report) == total(report.violations, DOMAIN report.violations)

\* ArchitectureReport.total_patterns
total_patterns(report) == total(report.patterns, DOMAIN report.patterns)


RECURSIVE gcd(_, _)
\* The greatest common divisor of two naturals, not both zero
gcd(a, b) == IF b = 0 THEN a ELSE gcd(b, a % b)

\* A float that is the quotient of two integers, kept as a fraction in
\* lowest terms; 0.0 is 0/1.
Float(num, den) ==
  [raised |-> None, num |-> num \div gcd(num, den), den |-> den \div gcd(num, den)]

\* a / b on two ints: a float, or ZeroDivisionError
true_divide(a, b) ==
  IF b = 0 THEN [raised |-> "ZeroDivisionError"] ELSE Float(a, b)

\* x * bool(total) on a float x: x * 1 or x * 0; a raised error propagates
times_bool(x, the_total) ==
  IF x.raised # None THEN x
  ELSE Float(x.num * (IF the_total # 0 THEN 1 ELSE 0), x.den)

\* `total` without `or 1`
safe_total_unguarded(the_total) == the_total

\* total or 1
safe_total(the_total) == IF the_total # 0 THEN the_total ELSE 1

\* The body of ArchitectureReport.pattern_distribution on the two totals: the
\* dict it returns, or the error it raises
distribution_of(total_patterns_, total_violations_) ==
  LET the_total == total_patterns_ + total_violations_
      patterns == times_bool(true_divide(total_patterns_, safe_total(the_total)), the_total)
      violations == times_bool(true_divide(total_violations_, safe_total(the_total)), the_total)
  IN IF patterns.raised # None THEN patterns
     ELSE IF violations.raised # None THEN violations
     ELSE [raised |-> None, patterns |-> patterns, violations |-> violations]

\* ArchitectureReport.pattern_distribution
pattern_distribution(report) ==
  distribution_of(total_patterns(report), total_violations(report))
\* ---------------------------------------------------------------------------
\* ModuleClassificationRules (config.py): classification by keyword count
\* ---------------------------------------------------------------------------

infrastructure_patterns ==
  << "redis", "postgres", "postgresql", "mongo", "mongodb", "mysql",
     "sqlite", "database", "db", "sql", "nosql", "orm", "sqlalchemy",
     "peewee", "storage", "cache", "s3", "blob", "file", "disk", "client",
     "api", "http", "rest", "graphql", "grpc", "webhook", "external",
     "third_party", "integration", "infra", "infrastructure", "queue",
     "broker", "message", "event", "auth", "oauth", "jwt", "session",
     "security", "aws", "gcp", "azure", "docker", "k8s", "kubernetes",
     "terraform" >>

tooling_patterns ==
  << "detector", "parser", "analyzer", "ast", "visitor", "scanner", "lexer",
     "linter", "formatter", "checker", "validator", "inspector", "test",
     "mock", "fixture", "factory", "builder", "generator", "cli", "command",
     "script", "tool", "util", "helper", "debug", "profile", "benchmark",
     "metrics", "build", "deploy", "migration", "seed", "setup", "config" >>

framework_patterns ==
  << "fastapi", "flask", "django", "starlette", "uvicorn", "gunicorn",
     "tornado", "aiohttp", "quart", "sanic", "dagster", "airflow", "celery",
     "rq", "dramatiq", "pandas", "numpy", "pytorch", "tensorflow", "sklearn",
     "huggingface", "transformers", "pydantic", "marshmallow", "cerberus",
     "voluptuous", "pytest", "unittest", "nose", "hypothesis", "factory_boy",
     "asyncio", "trio", "anyio", "twisted" >>

domain_patterns ==
  << "domain", "model", "entity", "aggregate", "value", "service",
     "business", "core", "logic", "rule", "policy", "strategy", "user",
     "account", "order", "payment", "product", "inventory", "customer",
     "transaction", "billing", "subscription", "catalog" >>

\* ModuleClassificationRules.all_patterns, in the order of the dict
all_patterns ==
  << << "infrastructure", infrastructure_patterns >>,
     << "tooling", tooling_patterns >>,
     << "framework", framework_patterns >>,
     << "domain", domain_patterns >> >>

\* sum(1 for pattern in patterns if pattern in path_lower)
pattern_score(patterns, path_lower) ==
  Cardinality({k \in 1..Len(patterns) : Contains(patterns[k], path_lower)})

\* ModuleClassificationRules.classify_by_path: next() takes the first module
\* type, in the order of the dict, whose score is the highest score and is
\* positive; "mixed" when there is none.
classify_by_path(file_path) ==
  LET path_lower == Lower(file_path)
      pattern_scores == [i \in 1..Len(all_patterns) |->
                           pattern_score(all_patterns[i][2], path_lower)]
      max_score == CHOOSE s \in {pattern_scores[i] : i \in 1..Len(all_patterns)} :
                     \A i \in 1..Len(all_patterns) : pattern_scores[i] <= s
      first_at_max == {i \in 1..Len(all_patterns) :
                         /\ pattern_scores[i] = max_score /\ pattern_scores[i] > 0
                         /\ \A j \in 1..(i - 1) : pattern_scores[j] # max_score}
  IN IF first_at_max = {} THEN "mixed"
     ELSE all_patterns[CHOOSE i \in first_at_max : TRUE][1]


\* ---------------------------------------------------------------------------
\* SDAArchitectureDetector and NodeAnalyzer (services.py, models.py)
\* ---------------------------------------------------------------------------

\* ViolationType of models.py
ViolationType ==
  {"business_conditionals", "isinstance_violations", "hasattr_violations",
   "getattr_violations", "dict_get_violations", "try_except_violations",
   "any_type_usage", "missing_field_constraints", "primitive_obsession",
   "enum_value_unwrapping", "missing_model_config", "no_forward_refs",
   "manual_validation", "anemic_services", "manual_json_serialization"}

\* PositivePattern of models.py
LegacyPositivePattern ==
  {"pydantic_models", "behavioral_enums", "computed_fields", "validators",
   "protocols", "type_dispatch_tables", "pydantic_validation",
   "pydantic_serialization", "immutable_updates", "field_constraints",
   "model_config_usage", "union_types", "literal_types", "discriminated_unions",
   "forward_references", "annotated_types", "generic_models", "recursive_models",
   "custom_validators", "custom_serializers", "root_validators", "enum_methods",
   "boundary_conditions", "type_checking_imports"}

\* NodeAnalyzer.extract_name: the id of a Name, the attr of an Attribute,
\* str(node.value) of a node with a value field (the text of a constant, the
\* repr of the object a Subscript holds), "" for any other node.
extract_name(node) ==
  CASE node.type = "Name" -> node.id
    [] node.type = "Attribute" -> node.attr
    [] node.type = "Constant" -> node.value
    [] node.type = "Subscript" -> "<ast.Name object>"
    [] OTHER -> ""

\* AnalysisContext.is_boundary_context, with the classifier set_file installs
is_boundary_context(current_file) ==
  classify_by_path(current_file) \in {"infrastructure", "tooling", "framework"}

\* SDAArchitectureDetector._record_finding: the finding appended, and the
\* list of self.findings it is appended to
record_finding(finding_type, current_file, node, description) ==
  << [finding_type |-> finding_type,
      finding |-> Finding(current_file, node.lineno, description)] >>

\* NodeAnalyzer.analyze_function_call: the one finding type whose list of the
\* dispatch table is not empty for func_name, or None
analyze_function_call(func_name) ==
  CASE func_name = "isinstance" -> "isinstance_violations"
    [] func_name = "hasattr" -> "hasattr_violations"
    [] func_name = "getattr" -> "getattr_violations"
    [] func_name \in {"json.dumps", "json.loads", "dumps", "loads"} ->
         "manual_json_serialization"
    [] func_name \in {"model_validate", "model_validate_json"} -> "pydantic_validation"
    [] func_name \in {"model_dump", "model_dump_json"} -> "pydantic_serialization"
    [] func_name = "model_copy" -> "immutable_updates"
    [] func_name = "Field" -> "field_constraints"
    [] func_name = "Annotated" -> "annotated_types"
    [] OTHER -> None

\* SDAArchitectureDetector._analyze_dict_get_call
analyze_dict_get_call(tree, n, current_file) ==
  LET key == tree[tree[n].children[2]]
      is_string_literal == key.type = "Constant" /\ key.vkind = "str"
      is_enum_self == key.type = "Name" /\ key.id = "self"
      is_enum_attribute == key.type = "Attribute"
      is_complex_key ==
        /\ key.type = "Tuple"
        /\ \E k \in 1..Len(key.children) : tree[key.children[k]].type = "Attribute"
  IN IF is_string_literal
     THEN record_finding("dict_get_violations", current_file, tree[n],
            "get() with string literal '" \o key.value \o "' (use typed model)")
     ELSE IF is_enum_self \/ is_enum_attribute \/ is_complex_key
     THEN record_finding("type_dispatch_tables", current_file, tree[n],
            "type dispatch lookup with "
              \o (IF is_enum_self THEN "enum self" ELSE "typed key"))
     ELSE <<>>

\* SDAArchitectureDetector.visit_Call, before generic_visit
visit_Call(tree, n, current_file) ==
  LET func == tree[tree[n].children[1]]
      func_name == extract_name(func)
      pattern_type_ == analyze_function_call(func_name)
  IN IF /\ func.type = "Attribute"
        /\ tree[func.children[1]].type = "Name"
        /\ tree[func.children[1]].id = "json"
        /\ func_name \in {"dumps", "loads"}
     THEN record_finding("manual_json_serialization", current_file, tree[n],
            "json." \o func_name \o "() manual serialization")
     ELSE IF func_name = "get" /\ func.type = "Attribute" /\ Len(tree[n].children) > 1
     THEN analyze_dict_get_call(tree, n, current_file)
     ELSE IF pattern_type_ = None THEN <<>>
     ELSE record_finding(pattern_type_, current_file, tree[n],
            IF pattern_type_ \in ViolationType
            THEN func_name \o "() runtime check" ELSE func_name \o " usage")

\* SDAArchitectureDetector.visit_If, before generic_visit
visit_If(tree, n, current_file) ==
  LET test_name == extract_name(tree[tree[n].children[1]])
  IN IF test_name = "TYPE_CHECKING"
     THEN record_finding("type_checking_imports", current_file, tree[n],
                         "TYPE_CHECKING import")
     ELSE IF is_boundary_context(current_file)
     THEN record_finding("boundary_conditions", current_file, tree[n],
                         "boundary error handling")
     ELSE record_finding("business_conditionals", current_file, tree[n],
                         "business logic conditional")

\* SDAArchitectureDetector.visit_Try, before generic_visit
visit_Try(tree, n, current_file) ==
  IF is_boundary_context(current_file)
  THEN record_finding("boundary_conditions", current_file, tree[n],
                      "boundary error handling")
  ELSE record_finding("try_except_violations", current_file, tree[n],
                      "try/except instead of type safety")

\* SDAArchitectureDetector.visit_Attribute, before generic_visit
visit_Attribute(tree, n, current_file) ==
  LET node == tree[n]
      base == tree[node.children[1]]
      enum_name == extract_name(tree[base.children[1]])
      enum_member == base.attr
  IN IF /\ node.attr = "value"
        /\ base.type = "Attribute"
        /\ enum_name # ""
        /\ IsUpper(enum_member)
     THEN record_finding("enum_value_unwrapping", current_file, node,
            "enum value unwrapping - consider StrEnum for automatic conversion, or validate if external serialization is needed instead of "
              \o enum_name \o "." \o enum_member \o ".value")
     ELSE <<>>

RECURSIVE visit(_, _, _), generic_visit(_, _, _, _)
\* NodeVisitor.visit: the visit method of the node's type records its
\* findings and then visits the children, depth first.  The function and
\* class definitions of the trees carry no decorator and there is no class,
\* so visit_FunctionDef and visit_ClassDef record nothing here.  The value is
\* the calls of _record_finding in the order they are made.
visit(tree, n, current_file) ==
  LET node == tree[n]
      recorded == CASE node.type = "Call" -> visit_Call(tree, n, current_file)
                    [] node.type = "If" -> visit_If(tree, n, current_file)
                    [] node.type = "Try" -> visit_Try(tree, n, current_file)
                    [] node.type = "Attribute" -> visit_Attribute(tree, n, current_file)
                    [] OTHER -> <<>>
  IN recorded \o generic_visit(tree, node.children, 1, current_file)

\* NodeVisitor.generic_visit over the children from the k-th on
generic_visit(tree, kids, k, current_file) ==
  IF k > Len(kids) THEN <<>>
  ELSE visit(tree, kids[k], current_file) \o generic_visit(tree, kids, k + 1, current_file)

RECURSIVE record_all(_, _, _)
\* self.findings after the calls of _record_finding from the k-th on
record_all(findings, recorded, k) ==
  IF k > Len(recorded) THEN findings
  ELSE record_all([findings EXCEPT ![recorded[k].finding_type] =
                     Append(@, recorded[k].finding)],
                  recorded, k + 1)

\* SDAArchitectureDetector.__init__: self.findings
empty_findings == [kind \in ViolationType \cup LegacyPositivePattern |-> <<>>]

RECURSIVE basename_from(_, _)
\* The part of path after its last "/", looking from position i down
basename_from(path, i) ==
  IF i = 0 THEN path
  ELSE IF SubSeq(path, i, i) = "/" THEN SubSeq(path, i + 1, Len(path))
  ELSE basename_from(path, i - 1)

\* os.path.basename
basename(path) == basename_from(path, Len(path))

\* filepath.replace(module_path, module_name) if module_path != filepath
\* else module_name, for a filepath that begins with module_path
relative_path(filepath, the_module_path, module_name) ==
  IF the_module_path = filepath THEN module_name
  ELSE module_name \o SubSeq(filepath, Len(the_module_path) + 1, Len(filepath))

\* DetectionService._generate_report of services.py
generate_report(findings) ==
  [violations |-> [kind \in ViolationType |-> findings[kind]],
   patterns |-> [kind \in LegacyPositivePattern |-> findings[kind]]]
\* ---------------------------------------------------------------------------
\* Module classification and file discovery
\* ---------------------------------------------------------------------------

\* ModuleTypeClassifier.from_path
classify_module_type(module_path) ==
  LET path_lower == Lower(module_path)
      has_test == Contains("test", path_lower)
      has_domain == Contains("model", path_lower) \/ Contains("domain", path_lower)
      has_service == Contains("service", path_lower) \/ Contains("api", path_lower)
      key == << has_test, has_domain, has_service >>
  IN CASE key = <<TRUE, FALSE, FALSE>> -> "tooling"
       [] key = <<TRUE, TRUE, FALSE>> -> "tooling"
       [] key = <<TRUE, FALSE, TRUE>> -> "tooling"
       [] key = <<TRUE, TRUE, TRUE>> -> "tooling"
       [] key = <<FALSE, TRUE, FALSE>> -> "domain"
       [] key = <<FALSE, TRUE, TRUE>> -> "domain"
       [] key = <<FALSE, FALSE, TRUE>> -> "infrastructure"
       [] key = <<FALSE, FALSE, FALSE>> -> "mixed"

\* The directories a run is pointed at
ModulePaths == {"tests/fixtures", "src/models", "src/services", "src/app"}

\* The names of the files path.glob("*.py") lists, in the order listed
FileNames == <<"a.py", "b.py", "c.py", "d.py">>

\* What a listed file holds: a tree, or a reason it yields none
FileContents ==
  [outcome : {"ok"}, tree : TreeNames]
    \cup [outcome : {"read_error", "parse_error"}, tree : {None}]

\* PathType.get_python_files for a directory: str(f) for each listed file
get_python_files(module_path, contents) ==
  [i \in 1..Len(contents) |->
     [path |-> module_path \o "/" \o FileNames[i],
      outcome |-> contents[i].outcome, tree |-> contents[i].tree]]

\* ---------------------------------------------------------------------------
\* The analysis run: DetectionService.analyze_module
\* ---------------------------------------------------------------------------

VARIABLES
  module_path,     \* the argument of analyze_module
  python_files,    \* the files found, each with what reading and parsing it gives
  pc,              \* "analyze": in the loop over the files; "done": report returned
  idx,             \* the number of files the loop has processed
  all_findings,    \* the list all_findings
  file_results,    \* for each processed file, what _analyze_file computed
  report,          \* << the report analyze_module returned >>, << >> before it returns
  factory_report,  \* << the report ArchitectureReport.from_findings built >>, << >> before
  detector_findings,  \* services.py: self.detector.findings of the DetectionService
  legacy_pc,          \* services.py: "idle" between calls of analyze_module, "analyze" in its loop
  legacy_idx,         \* services.py: the number of files the loop has processed
  legacy_reports,     \* services.py: the reports the calls of analyze_module returned, in order
  traversal_tree,            \* _build_scope_map: the tree it is given
  traversal_pc,              \* _build_scope_map: "start", "walk", or "done" when it has returned
  traversal_frames,          \* _build_scope_map: the calls of visit_node that have not returned
  traversal_current_scopes,  \* _build_scope_map: the list current_scopes
  traversal_scope_map,       \* _build_scope_map: the dict scope_map
  traversal_calls,           \* _build_scope_map: the number of calls made, this one included
  returned_context, \* RichAnalysisContext: the context the last operation returned
  receiver_context, \* RichAnalysisContext: the context the last operation was called on, after the call
  context_operation \* RichAnalysisContext: the last operation and its argument

\* The variables of a run of service.py
service_vars == << pc, idx, all_findings, file_results, report, factory_report >>

\* The variables of a DetectionService of services.py
legacy_vars == << detector_findings, legacy_pc, legacy_idx, legacy_reports >>

\* The variables of a call of _build_scope_map
traversal_vars == << traversal_tree, traversal_pc, traversal_frames,
                     traversal_current_scopes, traversal_scope_map, traversal_calls >>

\* The variables of a RichAnalysisContext that scopes are entered and left on
context_vars == << returned_context, receiver_context, context_operation >>

vars == << module_path, python_files, service_vars, legacy_vars, traversal_vars,
           context_vars >>

\* What the steps of a run of service.py leave alone
outside_service == << legacy_vars, traversal_vars, context_vars >>

\* What the steps of a DetectionService of services.py leave alone
outside_legacy == << module_path, python_files, service_vars, traversal_vars, context_vars >>

\* What the steps of _build_scope_map leave alone
outside_traversal == << module_path, python_files, service_vars, legacy_vars, context_vars >>

\* What the operations on a RichAnalysisContext leave alone
outside_context == << module_path, python_files, service_vars, legacy_vars, traversal_vars >>

\* No run of service.py has begun
ServiceIdle ==
  /\ pc = "analyze"
  /\ idx = 0
  /\ all_findings = <<>>
  /\ file_results = <<>>
  /\ report = <<>>
  /\ factory_report = <<>>

\* A new DetectionService of services.py, analyze_module not yet called
LegacyIdle ==
  /\ detector_findings = empty_findings
  /\ legacy_pc = "idle"
  /\ legacy_idx = 0
  /\ legacy_reports = <<>>

\* _build_scope_map has not been called
TraversalIdle ==
  /\ traversal_tree = None
  /\ traversal_pc = "idle"
  /\ traversal_frames = <<>>
  /\ traversal_current_scopes = <<>>
  /\ traversal_scope_map = EmptyDict
  /\ traversal_calls = 0

\* No RichAnalysisContext has been made
ContextIdle ==
  /\ returned_context = <<>>
  /\ receiver_context = <<>>
  /\ context_operation = <<>>

\* No module is being analysed
NoInput ==
  /\ module_path = ""
  /\ python_files = <<>>

module_type == classify_module_type(module_path)

Init ==
  /\ module_path \in ModulePaths
  /\ \E n \in 0..MaxFiles : \E contents \in [1..n -> FileContents] :
       python_files = get_python_files(module_path, contents)
  /\ ServiceIdle
  /\ LegacyIdle
  /\ TraversalIdle
  /\ ContextIdle

\* One iteration of the loop with all_findings = file_findings in place of
\* all_findings.extend(file_findings)
AnalyzeNext_assigns_findings(outcome) ==
  /\ pc = "analyze"
  /\ idx < Len(python_files)
  /\ python_files[idx + 1].outcome = outcome
  /\ LET result == analyze_file(python_files[idx + 1], module_type)
     IN /\ all_findings' = result.findings
        /\ file_results' = Append(file_results, result)
  /\ idx' = idx + 1
  /\ UNCHANGED << module_path, python_files, pc, report, factory_report, outside_service >>

\* One iteration of the loop of analyze_module over a file of the given
\* outcome: _analyze_file, then all_findings.extend(file_findings).
AnalyzeNext(outcome) ==
  /\ pc = "analyze"
  /\ idx < Len(python_files)
  /\ python_files[idx + 1].outcome = outcome
  /\ LET result == analyze_file(python_files[idx + 1], module_type)
     IN /\ all_findings' = all_findings \o result.findings
        /\ file_results' = Append(file_results, result)
  /\ idx' = idx + 1
  /\ UNCHANGED << module_path, python_files, pc, report, factory_report, outside_service >>

\* The file is read and parsed, and its tree analysed
AnalyzeParsedFile == AnalyzeNext("ok")

\* open() or read() raises
AnalyzeUnreadableFile == AnalyzeNext("read_error")

\* ast.parse raises
AnalyzeUnparsableFile == AnalyzeNext("parse_error")

\* The loop is over: _create_report builds the report analyze_module returns
CreateReport ==
  /\ pc = "analyze"
  /\ idx = Len(python_files)
  /\ report' = << create_report(all_findings) >>
  /\ pc' = "done"
  /\ UNCHANGED << module_path, python_files, idx, all_findings, file_results, factory_report,
                  outside_service >>

\* ArchitectureReport.from_findings applied to the findings of the run
FromFindings ==
  /\ pc = "done"
  /\ factory_report = <<>>
  /\ factory_report' = << from_findings(all_findings) >>
  /\ UNCHANGED << module_path, python_files, pc, idx, all_findings, file_results, report,
                  outside_service >>

Next ==
  \/ AnalyzeParsedFile
  \/ AnalyzeUnreadableFile
  \/ AnalyzeUnparsableFile
  \/ CreateReport
  \/ FromFindings

Spec == Init /\ [][Next]_vars


\* ---------------------------------------------------------------------------
\* The analysis run of services.py: DetectionService.analyze_module, called
\* repeatedly on one DetectionService or on a new one
\* ---------------------------------------------------------------------------

\* The number of calls of analyze_module
MaxRuns == 2

\* FileSystemService.list_python_files for a directory: the path joined
\* with each listed name
list_python_files(the_module_path, contents) ==
  [i \in 1..Len(contents) |->
     [path |-> the_module_path \o "/" \o FileNames[i],
      outcome |-> contents[i].outcome, tree |-> contents[i].tree]]

\* main of services.py: module_name when the command line gives none
module_name == basename(module_path)

LegacyInit ==
  /\ module_path \in ModulePaths
  /\ \E n \in 0..MaxFiles : \E contents \in [1..n -> FileContents] :
       python_files = list_python_files(module_path, contents)
  /\ ServiceIdle
  /\ LegacyIdle
  /\ TraversalIdle
  /\ ContextIdle

\* DetectionService() of services.py: a new service with a new detector
NewDetectionService ==
  /\ legacy_pc = "idle"
  /\ legacy_reports # <<>>
  /\ Len(legacy_reports) < MaxRuns
  /\ detector_findings # empty_findings
  /\ detector_findings' = empty_findings
  /\ UNCHANGED << outside_legacy, legacy_pc, legacy_idx,
                  legacy_reports >>

\* analyze_module of services.py is called on the service, with the same
\* arguments as before: the files are listed and the loop begins
LegacyAnalyzeModule ==
  /\ legacy_pc = "idle"
  /\ Len(legacy_reports) < MaxRuns
  /\ legacy_pc' = "analyze"
  /\ legacy_idx' = 0
  /\ UNCHANGED << outside_legacy, detector_findings,
                  legacy_reports >>

\* One iteration of the loop over a file that is read and parsed:
\* set_file, then self.detector.visit(tree)
LegacyVisitFile ==
  /\ legacy_pc = "analyze"
  /\ legacy_idx < Len(python_files)
  /\ python_files[legacy_idx + 1].outcome = "ok"
  /\ LET file == python_files[legacy_idx + 1]
         current_file == relative_path(file.path, module_path, module_name)
     IN detector_findings' =
          record_all(detector_findings, visit(Trees[file.tree], 1, current_file), 1)
  /\ legacy_idx' = legacy_idx + 1
  /\ UNCHANGED << outside_legacy, legacy_pc, legacy_reports >>

\* One iteration of the loop over a file whose reading or parsing raises:
\* the except branch prints and the loop goes on
LegacySkipFile ==
  /\ legacy_pc = "analyze"
  /\ legacy_idx < Len(python_files)
  /\ python_files[legacy_idx + 1].outcome # "ok"
  /\ legacy_idx' = legacy_idx + 1
  /\ UNCHANGED << outside_legacy, detector_findings, legacy_pc,
                  legacy_reports >>

\* The loop is over: return self._generate_report(self.detector.findings)
LegacyGenerateReport ==
  /\ legacy_pc = "analyze"
  /\ legacy_idx = Len(python_files)
  /\ legacy_reports' = Append(legacy_reports, generate_report(detector_findings))
  /\ legacy_pc' = "idle"
  /\ UNCHANGED << outside_legacy, detector_findings, legacy_idx >>

LegacyNext ==
  \/ NewDetectionService
  \/ LegacyAnalyzeModule
  \/ LegacyVisitFile
  \/ LegacySkipFile
  \/ LegacyGenerateReport

LegacySpec == LegacyInit /\ [][LegacyNext]_vars

\* ---------------------------------------------------------------------------
\* DetectionService._build_scope_map (service.py), step by step: the calls of
\* visit_node in progress, the shared list current_scopes and the dict
\* scope_map, whose keys are the node objects
\* ---------------------------------------------------------------------------

\* The tree _build_scope_map was given
the_traversal_tree == Trees[traversal_tree]

\* A call of visit_node that has not returned: its node, the next child
\* its loop will visit, and whether process_with_scope has started the loop
Frame(node, next, phase) == [node |-> node, next |-> next, phase |-> phase]

\* The innermost call of visit_node
top_frame == traversal_frames[Len(traversal_frames)]

\* scope_map = {}; current_scopes = []
ScopeInit ==
  /\ traversal_tree \in TreeNames
  /\ traversal_pc = "start"
  /\ traversal_frames = <<>>
  /\ traversal_current_scopes = <<>>
  /\ traversal_scope_map = EmptyDict
  /\ traversal_calls = 1
  /\ NoInput
  /\ ServiceIdle
  /\ LegacyIdle
  /\ ContextIdle

\* visit_node(tree): scope_map[tree] = current_scopes.copy()
VisitTree ==
  /\ traversal_pc = "start"
  /\ traversal_pc' = "walk"
  /\ traversal_scope_map' = (1 :> traversal_current_scopes)
  /\ traversal_frames' = << Frame(1, 1, "recorded") >>
  /\ UNCHANGED << outside_traversal, traversal_calls, traversal_tree, traversal_current_scopes >>

\* for child in ast.iter_child_nodes(n): visit_node(child), up to
\* scope_map[child] = current_scopes.copy(): the entry of a node object
\* that is already a key is replaced
VisitChild ==
  /\ traversal_pc = "walk"
  /\ top_frame.phase = "children"
  /\ top_frame.next <= Len(the_traversal_tree[top_frame.node].children)
  /\ LET child == the_traversal_tree[top_frame.node].children[top_frame.next]
         caller == Len(traversal_frames)
     IN /\ traversal_scope_map' =
             [n \in DOMAIN traversal_scope_map \cup {child} |->
                IF n = child THEN traversal_current_scopes ELSE traversal_scope_map[n]]
        /\ traversal_frames' =
             Append([traversal_frames EXCEPT ![caller].next = @ + 1],
                    Frame(child, 1, "recorded"))
  /\ UNCHANGED << outside_traversal, traversal_calls, traversal_tree, traversal_pc, traversal_current_scopes >>

\* _process_with_new_scope up to its call of visit_children:
\* current_scopes.append(self.create_scope(node))
ProcessWithNewScope ==
  /\ traversal_pc = "walk"
  /\ top_frame.phase = "recorded"
  /\ LET node == the_traversal_tree[top_frame.node]
     IN /\ pushes_scope(from_ast(node))
        /\ traversal_current_scopes' =
             Append(traversal_current_scopes, create_scope(from_ast(node), node))
  /\ traversal_frames' = [traversal_frames EXCEPT ![Len(traversal_frames)].phase = "children"]
  /\ UNCHANGED << outside_traversal, traversal_calls, traversal_tree, traversal_pc, traversal_scope_map >>

\* _process_without_scope up to its call of visit_children
ProcessWithoutScope ==
  /\ traversal_pc = "walk"
  /\ top_frame.phase = "recorded"
  /\ ~pushes_scope(from_ast(the_traversal_tree[top_frame.node]))
  /\ traversal_frames' = [traversal_frames EXCEPT ![Len(traversal_frames)].phase = "children"]
  /\ UNCHANGED << outside_traversal, traversal_calls, traversal_tree, traversal_pc,
                  traversal_current_scopes, traversal_scope_map >>

\* The loop of visit_children is over
children_visited ==
  /\ traversal_pc = "walk"
  /\ top_frame.phase = "children"
  /\ top_frame.next > Len(the_traversal_tree[top_frame.node].children)

\* visit_node returns to its caller, or _build_scope_map returns scope_map
return_from_visit ==
  /\ traversal_frames' = SubSeq(traversal_frames, 1, Len(traversal_frames) - 1)
  /\ traversal_pc' = IF Len(traversal_frames) = 1 THEN "done" ELSE "walk"

\* _process_with_new_scope without the pop after visit_children
LeaveNewScope_without_pop ==
  /\ children_visited
  /\ pushes_scope(from_ast(the_traversal_tree[top_frame.node]))
  /\ return_from_visit
  /\ UNCHANGED << outside_traversal, traversal_calls, traversal_tree,
                  traversal_current_scopes, traversal_scope_map >>

\* _process_with_new_scope after visit_children: current_scopes.pop()
LeaveNewScope ==
  /\ children_visited
  /\ pushes_scope(from_ast(the_traversal_tree[top_frame.node]))
  /\ traversal_current_scopes' =
       SubSeq(traversal_current_scopes, 1, Len(traversal_current_scopes) - 1)
  /\ return_from_visit
  /\ UNCHANGED << outside_traversal, traversal_calls, traversal_tree, traversal_scope_map >>

\* _process_without_scope after visit_children
LeaveWithoutScope ==
  /\ children_visited
  /\ ~pushes_scope(from_ast(the_traversal_tree[top_frame.node]))
  /\ return_from_visit
  /\ UNCHANGED << outside_traversal, traversal_calls, traversal_tree, traversal_current_scopes,
                  traversal_scope_map >>

ScopeNext ==
  \/ VisitTree
  \/ VisitChild
  \/ ProcessWithNewScope
  \/ ProcessWithoutScope
  \/ LeaveNewScope
  \/ LeaveWithoutScope

ScopeSpec == ScopeInit /\ [][ScopeNext]_vars

\* _analyze_ast_pure calls _build_scope_map for the next file of the run:
\* scope_map = {}; current_scopes = [] are new objects of the new call
BuildNextScopeMap ==
  /\ traversal_pc = "done"
  /\ traversal_calls < MaxFiles
  /\ traversal_tree' \in TreeNames
  /\ traversal_pc' = "start"
  /\ traversal_frames' = <<>>
  /\ traversal_current_scopes' = <<>>
  /\ traversal_scope_map' = EmptyDict
  /\ traversal_calls' = traversal_calls + 1
  /\ UNCHANGED outside_traversal

ScopeRunNext ==
  \/ VisitTree
  \/ VisitChild
  \/ ProcessWithNewScope
  \/ ProcessWithoutScope
  \/ LeaveNewScope
  \/ LeaveWithoutScope
  \/ BuildNextScopeMap

\* The calls of _build_scope_map a run makes, one after the other
ScopeRunSpec == ScopeInit /\ [][ScopeRunNext]_vars

\* ---------------------------------------------------------------------------
\* RichAnalysisContext (models/context_domain.py): scopes entered and left
\* on the context the previous operation returned
\* ---------------------------------------------------------------------------

\* The longest scope_stack a context is given
MaxDepth == 3

\* The AnalysisScope values that are entered
EnteredScopes ==
  { [scope_type |-> "class", name |-> "Order", line_number |-> 1],
    [scope_type |-> "function", name |-> "validate_input", line_number |-> 2],
    [scope_type |-> "function", name |-> "load", line_number |-> 7],
    [scope_type |-> "conditional", name |-> "conditional", line_number |-> 3] }

\* RichAnalysisContext.for_file
for_file(file_path, the_module_type) ==
  [current_file |-> file_path, module_type |-> the_module_type, scope_stack |-> <<>>]

\* enter_scope as self.scope_stack.append(scope); return self
enter_scope_appends_in_place(self, scope) ==
  LET appended == [self EXCEPT !.scope_stack = Append(self.scope_stack, scope)]
  IN [self |-> appended, result |-> appended]

\* RichAnalysisContext.enter_scope: the context it returns and the context
\* it was called on as the call leaves it
enter_scope(self, scope) ==
  LET new_stack == Append(self.scope_stack, scope)
  IN [self |-> self, result |-> [self EXCEPT !.scope_stack = new_stack]]

\* RichAnalysisContext.exit_scope: the context it returns and the context it
\* was called on as the call leaves it
exit_scope(self) ==
  IF self.scope_stack = <<>>
  THEN [self |-> self, result |-> self]
  ELSE LET new_stack == SubSeq(self.scope_stack, 1, Len(self.scope_stack) - 1)
       IN [self |-> self, result |-> [self EXCEPT !.scope_stack = new_stack]]

\* context = RichAnalysisContext.for_file(file_path, module_type)
ContextInit ==
  /\ \E file_path \in {"src/models/a.py", "tests/fixtures/b.py"} :
       returned_context = for_file(file_path, classify_module_type(file_path))
  /\ receiver_context = <<>>
  /\ context_operation = << "for_file" >>
  /\ NoInput
  /\ ServiceIdle
  /\ LegacyIdle
  /\ TraversalIdle

\* context = context.enter_scope(scope)
EnterScope(scope) ==
  /\ Len(returned_context.scope_stack) < MaxDepth
  /\ LET call == enter_scope(returned_context, scope)
     IN /\ returned_context' = call.result
        /\ receiver_context' = call.self
  /\ context_operation' = << "enter_scope", scope >>
  /\ UNCHANGED outside_context

\* context = context.exit_scope()
ExitScope ==
  /\ LET call == exit_scope(returned_context)
     IN /\ returned_context' = call.result
        /\ receiver_context' = call.self
  /\ context_operation' = << "exit_scope" >>
  /\ UNCHANGED outside_context

ContextNext ==
  \/ \E scope \in EnteredScopes : EnterScope(scope)
  \/ ExitScope

ContextSpec == ContextInit /\ [][ContextNext]_vars
\* ---------------------------------------------------------------------------
\* Properties
\* ---------------------------------------------------------------------------

\* The processed files that were read and parsed
Analysed == {i \in 1..Len(file_results) : python_files[i].outcome = "ok"}

tree_of(i) == Trees[python_files[i].tree]

path_of(i) == python_files[i].path

\* The nodes of the tree of file i that have the given type
Nodes(i, type) == {n \in 1..Len(tree_of(i)) : tree_of(i)[n].type = type}

\* The node_findings of node n of file i
node_findings(i, n) == file_results[i].by_node[n]

\* finding occurs in the bucket of the given kind
in_bucket(collection, kind, finding) ==
  /\ kind \in DOMAIN collection
  /\ \E k \in 1..Len(collection[kind]) : collection[kind][k] = finding

\* finding occurs in some bucket of the collection
in_collection(collection, finding) ==
  \E kind \in DOMAIN collection : in_bucket(collection, kind, finding)

\* description starts with prefix
starts_with(prefix, description) ==
  /\ Len(description) >= Len(prefix)
  /\ SubSeq(description, 1, Len(prefix)) = prefix

IntrospectionNames == {"isinstance", "hasattr", "getattr", "cast", "type", "Any"}

SerializationNames == {"dumps", "loads", "dump", "load"}

ValidationNames == {"model_dump", "model_validate", "model_copy", "Field"}

\* C1: every call whose resolved function name is isinstance, hasattr,
\* getattr, cast, type or Any yields the type-check finding, which is a
\* violation; and the classification table answers type_check for every key
\* whose type-check membership is true, whatever the other two memberships.
C1_TypeCheckWins ==
  /\ \A i \in Analysed : \A n \in Nodes(i, "Call") :
       LET name == extract_function_name(tree_of(i), n)
       IN name \in IntrospectionNames =>
            /\ node_findings(i, n) =
                 << Finding(path_of(i), tree_of(i)[n].lineno, "isinstance_usage: " \o name) >>
            /\ from_finding(node_findings(i, n)[1]) = "violation"
  /\ \A is_json, is_pydantic \in BOOLEAN :
       call_classification_map(<< TRUE, is_json, is_pydantic >>) = "type_check"

\* C1 witness: a file calling all six names has been analysed, and its
\* cast(B, a) on line 4 produced the type-check finding.
C1_Witness ==
  \E i \in Analysed :
    /\ IntrospectionNames \subseteq
         {extract_function_name(tree_of(i), n) : n \in Nodes(i, "Call")}
    /\ python_files[i].tree = "calls"
    /\ node_findings(i, 18) = << Finding(path_of(i), 4, "isinstance_usage: cast") >>

\* C2: every conditional whose test is exactly TYPE_CHECKING yields the
\* finding of the type_guard classification, in whatever scope it stands;
\* and the classification table answers type_guard for every key whose
\* type-checking flag is true, whatever the scope, lazy and boundary flags.
C2_TypeGuardWins ==
  /\ \A i \in Analysed : \A n \in Nodes(i, "If") :
       test_expression_of(tree_of(i), n) = "TYPE_CHECKING" =>
         node_findings(i, n) =
           << Finding(path_of(i), tree_of(i)[n].lineno,
                      "type_checking_imports: TYPE_CHECKING") >>
  /\ \A in_validation, lazy, boundary \in BOOLEAN :
       conditional_classification_map(<< TRUE, in_validation, lazy, boundary >>)
         = "type_guard"

\* C2 witness: `if TYPE_CHECKING:` on line 4, inside validate_input, has been
\* analysed with validate_input as its parent scope.
C2_Witness ==
  \E i \in Analysed :
    /\ python_files[i].tree = "conds"
    /\ LET scope_stack == build_scope_map(tree_of(i))[9]
       IN /\ scope_stack # <<>>
          /\ validation_scope(scope_stack[Len(scope_stack)].name)
    /\ node_findings(i, 9) =
         << Finding(path_of(i), 4, "type_checking_imports: TYPE_CHECKING") >>

\* The base of the attribute access at node n has the shape
\* Identifier.UPPER_CASE_NAME
enum_member_shape(tree, n) ==
  LET base == tree[tree[n].children[1]]
  IN /\ base.type = "Attribute"
     /\ IsUpper(base.attr)
     /\ tree[base.children[1]].type = "Name"

\* C3: .value on a base of the shape Identifier.UPPER_CASE_NAME yields
\* exactly one enum-value-unwrap violation, and .value on any other base
\* yields no enum-value-unwrap finding.
C3_EnumUnwrapNeedsMemberShape ==
  \A i \in Analysed : \A n \in Nodes(i, "Attribute") :
    tree_of(i)[n].attr = "value" =>
      IF enum_member_shape(tree_of(i), n)
      THEN /\ Len(node_findings(i, n)) = 1
           /\ pattern_category(node_findings(i, n)[1]) = "enum_value_access"
      ELSE \A k \in 1..Len(node_findings(i, n)) :
             pattern_category(node_findings(i, n)[k]) # "enum_value_access"

\* The calls of file i whose name is in none of the three membership sets
OrdinaryCalls(i) ==
  {n \in Nodes(i, "Call") :
     extract_function_name(tree_of(i), n)
       \notin (IntrospectionNames \cup SerializationNames \cup ValidationNames)}

\* C4 as amended: a call whose name is in none of the three membership sets
\* is classified as a computed field and yields exactly one finding, whose
\* description is "computed_fields: " followed by the name.
C4_OrdinaryCallIsComputedField ==
  \A i \in Analysed : \A n \in OrdinaryCalls(i) :
    node_findings(i, n) =
      << Finding(path_of(i), tree_of(i)[n].lineno,
                 "computed_fields: " \o extract_function_name(tree_of(i), n)) >>

\* C4 witness: foo(a) on line 9 and handlers[k](a) on line 10, whose name
\* resolves to unknown_function, have been analysed and each produced a
\* finding.
C4_Witness ==
  \E i \in Analysed :
    /\ python_files[i].tree = "calls"
    /\ {40, 44} \subseteq OrdinaryCalls(i)
    /\ node_findings(i, 40) = << Finding(path_of(i), 9, "computed_fields: foo") >>
    /\ node_findings(i, 44) =
         << Finding(path_of(i), 10, "computed_fields: unknown_function") >>

\* C4 as stated: a call whose name is in none of the three membership sets
\* yields no finding at all.
C4_OrdinaryCallNoFinding ==
  \A i \in Analysed : \A n \in OrdinaryCalls(i) : node_findings(i, n) = <<>>

\* The string constants of file i that the literal analyzer considers
StringNodes(i) ==
  {n \in Nodes(i, "Constant") :
     tree_of(i)[n].vkind = "str" /\ Len(tree_of(i)[n].value) > 1}

\* The nodes of file i at which the string literal occurs
Occurrences(i, literal) == {n \in StringNodes(i) : tree_of(i)[n].value = literal}

\* The positions of the literal findings of file i that are about the literal
FindingsAbout(i, literal) ==
  {k \in 1..Len(file_results[i].literal) :
     starts_with("string_literal_repetition: '" \o literal \o "' appears ",
                 file_results[i].literal[k].description)}

\* C5: over one file's tree, a string literal longer than one character
\* that occurs at two or more places gets exactly one repetition finding,
\* whose description holds the literal and the number of occurrences; a
\* literal that occurs once gets none.
C5_OneFindingPerRepeatedLiteral ==
  \A i \in Analysed : \A n \in StringNodes(i) :
    LET literal == tree_of(i)[n].value
        count == Cardinality(Occurrences(i, literal))
        about == FindingsAbout(i, literal)
    IN IF count >= 2
       THEN /\ Cardinality(about) = 1
            /\ \A k \in about :
                 /\ file_results[i].literal[k].description =
                      "string_literal_repetition: '" \o literal \o "' appears "
                        \o str_of_int(count) \o " times"
                 /\ file_results[i].literal[k].file_path = path_of(i)
       ELSE about = {}

\* C5 witness: a file with "pending" three times and "unique" once has been
\* analysed, and so has a file with "ok" twice.
C5_Witness ==
  /\ \E i \in Analysed :
       /\ Cardinality(Occurrences(i, "pending")) = 3
       /\ Cardinality(Occurrences(i, "unique")) = 1
       /\ Cardinality(FindingsAbout(i, "pending")) = 1
  /\ \E i \in Analysed :
       /\ Cardinality(Occurrences(i, "ok")) = 2
       /\ Cardinality(FindingsAbout(i, "ok")) = 1

\* C6: the repetition finding of a literal is at the lowest line on which
\* the literal occurs.
C6_ReportedAtLowestLine ==
  \A i \in Analysed : \A n \in StringNodes(i) :
    LET literal == tree_of(i)[n].value
    IN \A k \in FindingsAbout(i, literal) :
         \A m \in Occurrences(i, literal) :
           file_results[i].literal[k].line_number <= tree_of(i)[m].lineno

\* finding carries both a violation kind and a pattern kind
has_both_kinds(finding) ==
  pattern_category(finding) # None /\ pattern_type(finding) # None

\* The positions of all_findings whose finding satisfies the kind tests
WithViolationKind == {k \in 1..Len(all_findings) : pattern_category(all_findings[k]) # None}

WithPatternKind == {k \in 1..Len(all_findings) : pattern_type(all_findings[k]) # None}

\* C7: the report the run returns holds every finding that carries both a
\* violation kind and a pattern kind in the violations bucket of its
\* violation kind and in the patterns bucket of its pattern kind.
C7_BothKindsBothBuckets ==
  report # <<>> =>
    \A k \in WithViolationKind \cap WithPatternKind :
      /\ in_bucket(report[1].violations, pattern_category(all_findings[k]), all_findings[k])
      /\ in_bucket(report[1].patterns, pattern_type(all_findings[k]), all_findings[k])

\* C8: no finding has both a violation kind and a pattern kind derived for
\* it, and no report built from the findings holds a finding in both maps.
C8_AtMostOneBucket ==
  /\ \A k \in 1..Len(all_findings) : ~has_both_kinds(all_findings[k])
  /\ factory_report # <<>> =>
       \A k \in 1..Len(all_findings) :
         ~(/\ in_collection(factory_report[1].violations, all_findings[k])
           /\ in_collection(factory_report[1].patterns, all_findings[k]))

\* What is derived for a finding: its violation kind, its pattern kind and
\* the bucket the classifier sends it to
kinds_of(finding) ==
  << pattern_category(finding), pattern_type(finding), from_finding(finding) >>

\* The classification the conditional analyzer made at each If of file i
conditional_classifications(i) ==
  LET scope_map == build_scope_map(tree_of(i))
      base_context == [current_file |-> path_of(i), module_type |-> module_type,
                       scope_stack |-> <<>>]
  IN [n \in Nodes(i, "If") |->
        pattern_classification(
          test_expression_of(tree_of(i), n),
          parent_scope_of(compute_node_context(n, scope_map, base_context)))]

\* C9: two findings created from the same analyzer classification get the
\* same kinds and land in the same bucket, whatever their descriptions quote.
C9_KindFixedByClassification ==
  /\ \A i, j \in Analysed : \A n \in Nodes(i, "Call") : \A m \in Nodes(j, "Call") :
       call_pattern(extract_function_name(tree_of(i), n))
           = call_pattern(extract_function_name(tree_of(j), m))
         => kinds_of(node_findings(i, n)[1]) = kinds_of(node_findings(j, m)[1])
  /\ \A i, j \in Analysed :
       LET of_i == conditional_classifications(i)
           of_j == conditional_classifications(j)
       IN \A n \in Nodes(i, "If") : \A m \in Nodes(j, "If") :
            of_i[n] = of_j[m]
              => kinds_of(node_findings(i, n)[1]) = kinds_of(node_findings(j, m)[1])

\* The files of the run that could not be read
Unreadable == {i \in 1..Len(python_files) : python_files[i].outcome = "read_error"}

\* The entries of the returned report that are file-read-error findings
ReadErrorEntries(the_report) ==
  {e \in [map : {"violations"}, kind : DOMAIN the_report.violations, k : 1..Len(all_findings)]
         \cup [map : {"patterns"}, kind : DOMAIN the_report.patterns, k : 1..Len(all_findings)] :
     /\ e.k <= Len(the_report[e.map][e.kind])
     /\ the_report[e.map][e.kind][e.k].description = "file_read_error"}

\* C10: when exactly one of several files cannot be read, the returned
\* report holds every finding of every file that was read and exactly one
\* file-read-error finding, for the unreadable file.
C10_ReadErrorReported ==
  (report # <<>> /\ Len(python_files) >= 2 /\ Cardinality(Unreadable) = 1) =>
    /\ \A i \in Analysed : \A k \in 1..Len(file_results[i].findings) :
         \/ in_collection(report[1].violations, file_results[i].findings[k])
         \/ in_collection(report[1].patterns, file_results[i].findings[k])
    /\ Cardinality(ReadErrorEntries(report[1])) = 1
    /\ \A e \in ReadErrorEntries(report[1]) :
         report[1][e.map][e.kind][e.k].file_path \in {path_of(i) : i \in Unreadable}

\* The processed files that could not be read or could not be parsed
Failed == {i \in 1..Len(file_results) : python_files[i].outcome # "ok"}

\* What _analyze_file returns for a file that fails
diagnostic_description(outcome) ==
  IF outcome = "read_error" THEN "file_read_error" ELSE "ast_parse_error"

\* Every file that failed so far gave exactly one finding, at line 0 of
\* that file, and the findings of the run are those of the files in order.
FailuresConverted ==
  /\ \A i \in Failed :
       /\ Len(file_results[i].findings) = 1
       /\ file_results[i].findings[1] =
            Finding(path_of(i), 0, diagnostic_description(python_files[i].outcome))
  /\ Len(file_results) = idx
  /\ Len(all_findings) >= Cardinality(Failed)

\* The run has returned a report after processing every file of the list
RunCompleted ==
  /\ pc = "done"
  /\ report # <<>>
  /\ Len(file_results) = Len(python_files)

\* The run is at a point from which it can go on: in the loop with a file
\* whose outcome _analyze_file handles or with no file left, or returned.
CanProceed ==
  \/ pc = "done"
  \/ /\ pc = "analyze"
     /\ idx <= Len(python_files)
     /\ idx < Len(python_files) =>
          python_files[idx + 1].outcome \in {"ok", "read_error", "parse_error"}

\* The number of loop iterations left, plus one for the return
steps_to_return ==
  (Len(python_files) - idx) + (IF pc = "done" THEN 0 ELSE 1)

\* C11: whatever each file's outcome, the run terminates and returns a
\* report: it can always go on until it has returned, every step before the
\* return brings the return nearer, and at the return every file of the list
\* has been processed; every failing file gives exactly one diagnostic
\* finding at line 0 and the files after it are still processed.
C11_RunAlwaysCompletes ==
  /\ [](FailuresConverted /\ CanProceed /\ (pc = "done" => RunCompleted))
  /\ [][pc = "analyze" => steps_to_return' < steps_to_return /\ steps_to_return' >= 0]_vars

\* C11 witness: a run over two files, the first unreadable and the second
\* unparsable, has returned its report.
C11_Witness ==
  /\ RunCompleted
  /\ Len(python_files) = 2
  /\ python_files[1].outcome = "read_error"
  /\ python_files[2].outcome = "parse_error"
  /\ all_findings = << Finding(path_of(1), 0, "file_read_error"),
                       Finding(path_of(2), 0, "ast_parse_error") >>

\* The largest total the ratio pair is computed for
MaxCount == 6

\* The ratio pair of the two counts as a pair of fractions in lowest terms:
\* {patterns / total, violations / total}, and {0.0, 0.0} when total is zero
ratio_pair(patterns_total, violations_total) ==
  LET the_total == patterns_total + violations_total
      d == IF the_total = 0 THEN 1 ELSE gcd(patterns_total, the_total)
      e == IF the_total = 0 THEN 1 ELSE gcd(violations_total, the_total)
  IN IF the_total = 0
     THEN << <<0, 1>>, <<0, 1>> >>
     ELSE << << patterns_total \div d, the_total \div d >>,
             << violations_total \div e, the_total \div e >> >>

\* What pattern_distribution gives for the two counts is the ratio pair,
\* and no error
gives_ratio_pair(patterns_total, violations_total) ==
  LET distribution == distribution_of(patterns_total, violations_total)
  IN /\ distribution.raised = None
     /\ << << distribution.patterns.num, distribution.patterns.den >>,
           << distribution.violations.num, distribution.violations.den >> >>
          = ratio_pair(patterns_total, violations_total)

\* C12: the ratio pair of the report the run returned, and of every pair of
\* counts up to MaxCount, is {patterns / total, violations / total}, it is
\* {0.0, 0.0} when the total is zero, and computing it raises nothing.
C12_RatioPairZeroSafe ==
  /\ report # <<>> =>
       LET distribution == pattern_distribution(report[1])
           expected == ratio_pair(total_patterns(report[1]), total_violations(report[1]))
       IN /\ distribution.raised = None
          /\ << distribution.patterns.num, distribution.patterns.den >> = expected[1]
          /\ << distribution.violations.num, distribution.violations.den >> = expected[2]
  /\ \A patterns_total, violations_total \in 0..MaxCount :
       gives_ratio_pair(patterns_total, violations_total)

\* C12 witness: a run has returned a report with no finding at all, whose
\* ratio pair is {0.0, 0.0}.
C12_Witness ==
  /\ report # <<>>
  /\ Len(python_files) >= 1
  /\ total_patterns(report[1]) + total_violations(report[1]) = 0
  /\ pattern_distribution(report[1]) =
       [raised |-> None, patterns |-> Float(0, 1), violations |-> Float(0, 1)]

\* C13: any two analyses of the same input return the same report, that is
\* the same findings under every kind and so the same per-kind counts,
\* whether the later one runs on the service of the earlier one or on a new
\* one.
C13_SameInputSameReport ==
  \A first, second \in 1..Len(legacy_reports) :
    legacy_reports[first] = legacy_reports[second]

RECURSIVE findings_of_files(_, _, _)
\* all_findings after the loop of analyze_module over the files from the
\* k-th on
findings_of_files(files, k, the_module_type) ==
  IF k > Len(files) THEN <<>>
  ELSE analyze_file(files[k], the_module_type).findings
         \o findings_of_files(files, k + 1, the_module_type)

\* The number of findings in every bucket of the report
bucket_counts(the_report) ==
  [map \in {"violations", "patterns"} |->
     [kind \in PatternType \cup PositivePattern |->
        IF kind \in DOMAIN the_report[map] THEN Len(the_report[map][kind]) ELSE 0]]

\* The orders in which n files can be listed
Orders(n) == {order \in [1..n -> 1..n] : \A i, j \in 1..n : order[i] = order[j] => i = j}

\* The report of the run over the files listed in the given order
report_in_order(order) ==
  create_report(
    findings_of_files([i \in 1..Len(python_files) |-> python_files[order[i]]], 1, module_type))

\* C14: the run over the same files listed in any other order returns a
\* report with the same count in every violation bucket and every pattern
\* bucket as the report the run returned.
C14_CountsIgnoreFileOrder ==
  report # <<>> =>
    \A order \in Orders(Len(python_files)) :
      bucket_counts(report_in_order(order)) = bucket_counts(report[1])

\* C14 witness: a run over two files with different findings has returned;
\* listing them the other way round gives a different report with the same
\* counts.
C14_Witness ==
  /\ report # <<>>
  /\ Len(python_files) = 2
  /\ total_violations(report[1]) >= 2
  /\ \E order \in Orders(2) :
       /\ report_in_order(order) # report[1]
       /\ bucket_counts(report_in_order(order)) = bucket_counts(report[1])


\* The nodes of which node n is a child.  A node object that occurs at
\* several places of the tree has several.
Parents(tree, n) == {p \in 1..Len(tree) : \E k \in 1..Len(tree[p].children) : tree[p].children[k] = n}

\* The scope node p creates for its descendants, as a sequence: empty when
\* p is not scope-creating
scope_created_by(tree, p) ==
  IF pushes_scope(from_ast(tree[p]))
  THEN << create_scope(from_ast(tree[p]), tree[p]) >>
  ELSE <<>>

RECURSIVE ancestor_scopes(_, _)
\* The scopes created by the scope-creating proper ancestors of node n,
\* outermost first: one sequence for each place at which n occurs
ancestor_scopes(tree, n) ==
  IF n = 1 THEN { <<>> }
  ELSE UNION { { above \o scope_created_by(tree, p) : above \in ancestor_scopes(tree, p) } :
               p \in Parents(tree, n) }

\* C15: when the scope builder returns, every node of the tree has a
\* recorded snapshot, and the snapshot is exactly the sequence of scopes
\* created by the node's scope-creating proper ancestors, outermost first.
C15_SnapshotIsAncestorScopes ==
  traversal_pc = "done" =>
    /\ DOMAIN traversal_scope_map = 1..Len(the_traversal_tree)
    /\ \A n \in 1..Len(the_traversal_tree) :
         ancestor_scopes(the_traversal_tree, n) = { traversal_scope_map[n] }

RECURSIVE nearest_scope_creators(_, _)
\* The nearest scope-creating ancestor of node n, if it has one: one for
\* each place at which n occurs
nearest_scope_creators(tree, n) ==
  UNION { IF pushes_scope(from_ast(tree[p])) THEN {p} ELSE nearest_scope_creators(tree, p) :
          p \in Parents(tree, n) }

\* C16: when the scope builder returns, the snapshot recorded for a
\* non-scope-creating node is identical to the snapshot recorded for its
\* nearest scope-creating ancestor.
C16_InheritsAncestorSnapshot ==
  traversal_pc = "done" =>
    \A n \in 1..Len(the_traversal_tree) :
      ~pushes_scope(from_ast(the_traversal_tree[n])) =>
        \A ancestor \in nearest_scope_creators(the_traversal_tree, n) :
          traversal_scope_map[n] = traversal_scope_map[ancestor]

\* C17: no step of the traversal changes a snapshot that has been recorded.
C17_RecordedSnapshotNeverChanges ==
  [][\A n \in DOMAIN traversal_scope_map :
       /\ n \in DOMAIN traversal_scope_map'
       /\ traversal_scope_map'[n] = traversal_scope_map[n]]_vars

\* The stack without its innermost scope
without_innermost(stack) == SubSeq(stack, 1, Len(stack) - 1)

\* C18: enter_scope returns a context whose stack is the old stack with the
\* scope appended and leaves the stack of the context it was called on
\* unchanged; exit_scope returns a context without the innermost scope, or
\* the same context when the stack is empty; and exit_scope applied to the
\* result of enter_scope gives a context with the original stack, for every
\* stack reached and every scope.
C18_EnterExitScope ==
  /\ [][/\ context_operation'[1] = "enter_scope" =>
            /\ returned_context'.scope_stack =
                 Append(returned_context.scope_stack, context_operation'[2])
            /\ receiver_context' = returned_context
        /\ context_operation'[1] = "exit_scope" =>
            /\ returned_context' =
                 IF returned_context.scope_stack = <<>>
                 THEN returned_context
                 ELSE [returned_context EXCEPT
                         !.scope_stack = without_innermost(returned_context.scope_stack)]
            /\ receiver_context' = returned_context]_vars
  /\ [](\A scope \in EnteredScopes :
          exit_scope(enter_scope(returned_context, scope).result).result = returned_context)

\* C18 witness: exit_scope has just been called on a context two scopes
\* deep that enter_scope built, and returned a context one scope deep while
\* the context it was called on still holds both scopes.
C18_Witness ==
  /\ context_operation = << "exit_scope" >>
  /\ Len(receiver_context.scope_stack) = 2
  /\ returned_context.scope_stack = without_innermost(receiver_context.scope_stack)
  /\ returned_context = enter_scope(for_file(returned_context.current_file,
                                             returned_context.module_type),
                                    returned_context.scope_stack[1]).result

\* The keys of node_classifiers in ASTNodeType.from_ast: the names of the
\* node types it recognises
node_classifiers ==
  {"FunctionDef", "AsyncFunctionDef", "ClassDef", "If", "Match", "Call", "Attribute"}

\* The kinds whose entry in analyzer_dispatch is `lambda: []`
kinds_without_analyzer == {"unknown", "function_def", "class_def"}

\* C19: every node of an analysed file gets a kind; a node whose type is
\* not one of the recognised types gets the kind unknown; and a node of kind
\* unknown, function_def or class_def went through scope handling and
\* analyzer dispatch and produced an empty finding list.
C19_UnknownNodesYieldNothing ==
  \A i \in Analysed : \A n \in 1..Len(tree_of(i)) :
    LET node == tree_of(i)[n]
    IN /\ from_ast(node) \in ASTNodeType
       /\ node.type \notin node_classifiers => from_ast(node) = "unknown"
       /\ from_ast(node) \in kinds_without_analyzer =>
            /\ n \in DOMAIN file_results[i].by_node
            /\ node_findings(i, n) = <<>>

\* C19 witness: a file with a class, a method, an async function and nodes
\* of unrecognised types (arguments, Return, Pass, Assign, the Load marker)
\* has been analysed, and every node other than its attribute access
\* produced an empty finding list.
C19_Witness ==
  \E i \in Analysed :
    /\ python_files[i].tree = "defs"
    /\ {from_ast(tree_of(i)[n]) : n \in 1..Len(tree_of(i))} =
         {"unknown", "function_def", "class_def", "attribute"}
    /\ {tree_of(i)[n].type : n \in {4, 6, 11, 12, 16}} =
         {"arguments", "Return", "Pass", "Assign", "Load"}
    /\ \A n \in (1..Len(tree_of(i))) \ {7} : node_findings(i, n) = <<>>

\* The paths module classification is asked about: the directories of the
\* runs and the paths "src/infra/redis_client.py", "notes.txt" and
\* "src/api/models", the last of which has one infrastructure keyword
\* ("api") and one domain keyword ("model")
ClassifiedPaths ==
  ModulePaths \cup {"src/infra/redis_client.py", "notes.txt", "src/api/models"}

\* The module type with the highest keyword count for the path; "mixed" when
\* two types share the highest count or no keyword occurs
highest_count_or_mixed(path) ==
  LET path_lower == Lower(path)
      count == [i \in 1..Len(all_patterns) |-> pattern_score(all_patterns[i][2], path_lower)]
      highest == {i \in 1..Len(all_patterns) : \A j \in 1..Len(all_patterns) : count[j] <= count[i]}
  IN IF Cardinality(highest) = 1 /\ \A i \in highest : count[i] > 0
     THEN all_patterns[CHOOSE i \in highest : TRUE][1]
     ELSE "mixed"

\* C20: the module type of a run, and the module type either classifier
\* gives a path, is the type with the highest keyword count for the path,
\* and mixed on a tie for the highest count or when no keyword occurs; so
\* "src/infra/redis_client.py" is infrastructure and "notes.txt" is mixed.
C20_HighestCountOrMixed ==
  /\ module_type = highest_count_or_mixed(module_path)
  /\ \A path \in ClassifiedPaths :
       /\ classify_module_type(path) = highest_count_or_mixed(path)
       /\ classify_by_path(path) = highest_count_or_mixed(path)
  /\ highest_count_or_mixed("src/infra/redis_client.py") = "infrastructure"
  /\ highest_count_or_mixed("notes.txt") = "mixed"

\* The substrings of a scope name that indicate validation
ValidationIndicators == << "validate", "check", "verify" >>

RECURSIVE nearest_named_scope(_)
\* The name of the innermost function or class scope of the stack; None
\* when it holds none
nearest_named_scope(stack) ==
  IF stack = <<>> THEN None
  ELSE IF stack[Len(stack)].scope_type \in {"function", "class"}
       THEN stack[Len(stack)].name
       ELSE nearest_named_scope(SubSeq(stack, 1, Len(stack) - 1))

\* The scopes around node n of file i: those of its proper ancestors
scopes_around(i, n) ==
  CHOOSE stack \in ancestor_scopes(tree_of(i), n) : TRUE

\* The conditionals of file i that are not type-checking guards and stand
\* in a function or class whose name indicates validation
InValidationScope(i) ==
  {n \in Nodes(i, "If") :
     /\ test_expression_of(tree_of(i), n) # "TYPE_CHECKING"
     /\ nearest_named_scope(scopes_around(i, n)) # None
     /\ ContainsAny(ValidationIndicators, Lower(nearest_named_scope(scopes_around(i, n))))}

\* C21: a conditional that is not the type-checking guard and whose nearest
\* enclosing function or class has a name containing validate, check or
\* verify is classified validation_check and yields the pattern finding of
\* that classification, also when it is nested in another conditional.
C21_ValidationScopeClassified ==
  \A i \in Analysed : \A n \in InValidationScope(i) :
    /\ conditional_classifications(i)[n] = "validation_check"
    /\ node_findings(i, n) =
         << Finding(path_of(i), tree_of(i)[n].lineno,
                    "boundary_conditions: " \o test_expression_of(tree_of(i), n)) >>

\* The conditionals of file i whose test holds a boundary-indicating
\* substring and that are neither type-checking guards, nor in a validation
\* scope, nor lazy initializations
BoundaryTests(i) ==
  {n \in Nodes(i, "If") \ InValidationScope(i) :
     LET test_expression == test_expression_of(tree_of(i), n)
     IN /\ ~is_type_checking(test_expression)
        /\ ~is_lazy_initialization(test_expression)
        /\ conditional_classifications(i)[n] # "validation_check"
        /\ suggests_boundary_logic(test_expression)}

\* C22: such a conditional yields the boundary-condition pattern finding
\* when the module type of the run is neither domain nor mixed, and the
\* business-conditional violation finding when it is domain or mixed.
C22_BoundaryOnlyOutsideDomain ==
  \A i \in Analysed : \A n \in BoundaryTests(i) :
    node_findings(i, n) =
      << Finding(path_of(i), tree_of(i)[n].lineno,
                 (IF module_type \in {"domain", "mixed"}
                  THEN "business_conditionals: "
                  ELSE "boundary_conditions: ")
                   \o test_expression_of(tree_of(i), n)) >>

\* The conditionals of file i that the conditional analyzer classified as
\* type guard, validation check or boundary condition
PatternConditionals(i) ==
  {n \in Nodes(i, "If") :
     conditional_classifications(i)[n]
       \in {"type_guard", "validation_check", "boundary_condition"}}

\* C23: in the report the run returns, the finding of every conditional
\* classified type guard, validation check or boundary condition carries
\* the pattern kind of its classification, is in that kind's bucket of the
\* patterns map, and is in no bucket of the violations map.
C23_PatternConditionalsReported ==
  report # <<>> =>
    \A i \in Analysed : \A n \in PatternConditionals(i) :
      LET finding == node_findings(i, n)[1]
          kind == conditional_finding_type(conditional_classifications(i)[n])
      IN /\ pattern_type(finding) = kind
         /\ in_bucket(report[1].patterns, kind, finding)
         /\ ~in_collection(report[1].violations, finding)

\* The framework-validation and construction names
FrameworkNames == {"model_dump", "model_validate", "model_copy", "Field", "Annotated"}

\* C24: every call whose function name is model_dump, model_validate,
\* model_copy, Field or Annotated is classified as a framework operation
\* and yields the finding of that classification, which is a pattern.
C24_FrameworkNamesArePatterns ==
  \A i \in Analysed : \A n \in Nodes(i, "Call") :
    LET name == extract_function_name(tree_of(i), n)
    IN name \in FrameworkNames =>
         /\ call_pattern(name) = "pydantic_operation"
         /\ node_findings(i, n) =
              << Finding(path_of(i), tree_of(i)[n].lineno, "pydantic_serialization: " \o name) >>
         /\ from_finding(node_findings(i, n)[1]) = "pattern"

\* The substrings of an attribute name that suggest a computed property
ComputedNames == << "total", "count", "sum", "avg", "max", "min" >>

\* C25: an attribute access named value is classified enum unwrapping and
\* yields the enum-value finding, whatever else its name matches; any
\* other name containing total, count, sum, avg, max or min is classified
\* computed-field candidate and yields exactly one finding, which carries
\* the computed-fields pattern kind; every other name is a normal access
\* and yields no finding.
C25_AttributeClassifiedByName ==
  \A i \in Analysed : \A n \in Nodes(i, "Attribute") :
    LET name == tree_of(i)[n].attr
        line == tree_of(i)[n].lineno
    IN CASE name = "value" ->
              /\ attribute_pattern_classification(name) = "enum_unwrapping"
              /\ node_findings(i, n) = << Finding(path_of(i), line, "enum_value_access: value") >>
         [] name # "value" /\ ContainsAny(ComputedNames, name) ->
              /\ attribute_pattern_classification(name) = "computed_field_candidate"
              /\ node_findings(i, n) = << Finding(path_of(i), line, "computed_fields: " \o name) >>
              /\ pattern_type(node_findings(i, n)[1]) = "computed_fields"
         [] OTHER ->
              /\ attribute_pattern_classification(name) = "normal_access"
              /\ node_findings(i, n) = <<>>

\* C25 witness: a file with Status.ACTIVE.value, order.total, order.name and
\* stats.item_count has been analysed; they produced the enum-value
\* finding, a computed-fields finding, nothing, and a computed-fields
\* finding.
C25_Witness ==
  \E i \in Analysed :
    /\ python_files[i].tree = "attrs"
    /\ node_findings(i, 4) = << Finding(path_of(i), 1, "enum_value_access: value") >>
    /\ node_findings(i, 17) = << Finding(path_of(i), 4, "computed_fields: total") >>
    /\ node_findings(i, 21) = <<>>
    /\ node_findings(i, 25) = << Finding(path_of(i), 6, "computed_fields: item_count") >>

\* ---------------------------------------------------------------------------
\* Boundary and type-checking intelligence of a context (context_domain.py)
\* ---------------------------------------------------------------------------

\* ScopeType.suggests_infrastructure
suggests_infrastructure(scope_type) == scope_type \in {"try_block", "module"}

\* AnalysisScope.is_boundary_scope
is_boundary_scope(scope) ==
  IF suggests_infrastructure(scope.scope_type) THEN TRUE
  ELSE ContainsAny(<< "client", "adapter", "wrapper", "handler", "connector" >>,
                   Lower(scope.name))

\* RichAnalysisContext._file_suggests_boundary; Path(current_file).name is
\* the text after the last "/"
file_suggests_boundary(context) ==
  ContainsAny(<< "client", "adapter", "wrapper", "config", "settings" >>,
              Lower(basename(context.current_file)))

\* RichAnalysisContext.in_boundary_context
in_boundary_context(context) ==
  LET scope_suggests_boundary ==
        \E k \in 1..Len(context.scope_stack) : is_boundary_scope(context.scope_stack[k])
      module_suggests_boundary == context.module_type \in {"infrastructure", "framework"}
  IN file_suggests_boundary(context) \/ scope_suggests_boundary \/ module_suggests_boundary

\* The context _analyze_file builds for listed file i
base_context_of(i) ==
  [current_file |-> python_files[i].path, module_type |-> classify_module_type(module_path),
   scope_stack |-> <<>>]

\* The name set_file gives the legacy context for listed file i
legacy_file_of(i) == relative_path(python_files[i].path, module_path, module_name)

\* The listed files that are read and parsed
Parsed == {i \in 1..Len(python_files) : python_files[i].outcome = "ok"}

\* C26: a context with an empty scope stack and a file name without a
\* boundary keyword is a boundary context exactly when its module type is
\* infrastructure or framework; this holds of the context the service builds
\* for a file and of the context the legacy detector is given for it.
C26_BoundaryIffInfrastructureOrFramework ==
  \A i \in Parsed :
    /\ ~file_suggests_boundary(base_context_of(i)) =>
         (in_boundary_context(base_context_of(i))
            <=> base_context_of(i).module_type \in {"infrastructure", "framework"})
    /\ i <= legacy_idx =>
         (is_boundary_context(legacy_file_of(i))
            <=> classify_by_path(legacy_file_of(i)) \in {"infrastructure", "framework"})

\* The classification the call analyzer made at each call of file i
call_classifications(i) ==
  [n \in Nodes(i, "Call") |-> call_pattern(extract_function_name(tree_of(i), n))]

\* C27: a call whose function name is in none of the type-check, JSON and
\* Pydantic name sets is classified computed_field, and two calls with the
\* same function name get the same classification and the same finding
\* description, whatever their lines and files.
C27_ClassifiedByNameOnly ==
  /\ \A i \in Analysed : \A n \in OrdinaryCalls(i) :
       /\ call_classifications(i)[n] = "computed_field"
       /\ Len(node_findings(i, n)) = 1
       /\ node_findings(i, n)[1].line_number = tree_of(i)[n].lineno
       /\ call_finding_type(call_classifications(i)[n]) \o ": "
            \o extract_function_name(tree_of(i), n) = node_findings(i, n)[1].description
  /\ \A i, j \in Analysed : \A n \in Nodes(i, "Call") : \A m \in Nodes(j, "Call") :
       extract_function_name(tree_of(i), n) = extract_function_name(tree_of(j), m) =>
         /\ call_classifications(i)[n] = call_classifications(j)[m]
         /\ node_findings(i, n)[1].description = node_findings(j, m)[1].description

\* C27 witness: foo(a) on line 9 and foo(b) on line 15 of one file have been
\* analysed and both are computed fields, as is count_isinstance_usage(v) of
\* another analysed file, whose name is no listed name but contains one.
C27_Witness ==
  \E i, j \in Analysed :
    /\ python_files[i].tree = "calls"
    /\ {40, 67} \subseteq OrdinaryCalls(i)
    /\ node_findings(i, 40) = << Finding(path_of(i), 9, "computed_fields: foo") >>
    /\ node_findings(i, 67) = << Finding(path_of(i), 15, "computed_fields: foo") >>
    /\ python_files[j].tree = "conds"
    /\ \E n \in OrdinaryCalls(j) :
         /\ extract_function_name(tree_of(j), n) = "count_isinstance_usage"
         /\ call_classifications(j)[n] = "computed_field"

\* First-match-wins evaluation of the ordered list type guard, validation
\* check, lazy initialization, boundary condition, default business logic
first_match_wins(key) ==
  IF key[1] THEN "type_guard"
  ELSE IF key[2] THEN "validation_check"
  ELSE IF key[3] THEN "lazy_initialization"
  ELSE IF key[4] THEN "boundary_condition"
  ELSE "business_logic"

\* The four signals of the conditional at node n of file i
signals(i, n) ==
  LET test_expression == test_expression_of(tree_of(i), n)
      node_context == compute_node_context(n, build_scope_map(tree_of(i)),
                                           base_context_of(i))
  IN << is_type_checking(test_expression),
        validation_scope(parent_scope_of(node_context)),
        is_lazy_initialization(test_expression),
        suggests_boundary_logic(test_expression) >>

\* C28: on all 16 combinations of the four signals the classification table
\* agrees with first-match-wins evaluation of the ordered list, every
\* analysed conditional is classified and reported as the ordered list
\* classifies its signals, and `self._cache is None`, which matches the
\* lazy-initialization and the boundary substrings, is a lazy initialization.
C28_TableIsFirstMatchWins ==
  /\ \A key \in [1..4 -> BOOLEAN] :
       conditional_classification_map(key) = first_match_wins(key)
  /\ \A i \in Analysed : \A n \in Nodes(i, "If") :
       /\ conditional_classifications(i)[n] = first_match_wins(signals(i, n))
       /\ node_findings(i, n) =
            << conditional_create_finding(first_match_wins(signals(i, n)), path_of(i),
                                          tree_of(i)[n].lineno,
                                          test_expression_of(tree_of(i), n)) >>
       /\ test_expression_of(tree_of(i), n) = "self._cache is None" =>
            /\ signals(i, n)[3] /\ signals(i, n)[4]
            /\ conditional_classifications(i)[n] = "lazy_initialization"

\* C28 witness: `if self._cache is None:` on line 9 has been analysed; it
\* matches the lazy-initialization and the boundary substrings and is
\* reported as the lazy initialization it is classified as.
C28_Witness ==
  \E i \in Analysed : \E n \in Nodes(i, "If") :
    /\ python_files[i].tree = "conds"
    /\ test_expression_of(tree_of(i), n) = "self._cache is None"
    /\ signals(i, n) = << FALSE, FALSE, TRUE, TRUE >>
    /\ conditional_classifications(i)[n] = "lazy_initialization"
    /\ node_findings(i, n) =
         << Finding(path_of(i), 9, "business_conditionals: self._cache is None") >>

\* RichAnalysisContext.in_type_checking_context
in_type_checking_context(context) ==
  \E k \in 1..Len(context.scope_stack) : context.scope_stack[k].name = "TYPE_CHECKING"

\* The context _analyze_ast_pure computes for node n of file i
node_context_of(i, n) ==
  compute_node_context(n, build_scope_map(tree_of(i)), base_context_of(i))

RECURSIVE below(_, _)
\* Node n of the tree and every node under it
below(tree, n) ==
  {n} \cup UNION { below(tree, tree[n].children[k]) : k \in 1..Len(tree[n].children) }

\* The nodes of file i in the body of an `if TYPE_CHECKING:` block: those at
\* or under a child of the If other than its test.  Marker objects the
\* parser shares between places of the tree are left out.
InTypeCheckingBlock(i) ==
  {n \in UNION { UNION { below(tree_of(i), tree_of(i)[g].children[k]) :
                         k \in 2..Len(tree_of(i)[g].children) } :
                 g \in {g \in Nodes(i, "If") :
                          test_expression_of(tree_of(i), g) = "TYPE_CHECKING"} } :
     Cardinality(Parents(tree_of(i), n)) = 1}

\* C29: the context computed for a node in the body of an
\* `if TYPE_CHECKING:` block reports in_type_checking_context, and the
\* context computed for a node outside every such block does not.
C29_TypeCheckingContextInBlock ==
  \A i \in Analysed : \A n \in 1..Len(tree_of(i)) :
    Cardinality(Parents(tree_of(i), n)) <= 1 =>
      (in_type_checking_context(node_context_of(i, n)) <=> n \in InTypeCheckingBlock(i))

RECURSIVE open_scopes(_)
\* The scopes created by the first k calls of visit_node in progress that
\* have pushed theirs, outermost first
open_scopes(k) ==
  IF k = 0 THEN <<>>
  ELSE open_scopes(k - 1)
         \o (IF traversal_frames[k].phase = "children"
             THEN scope_created_by(the_traversal_tree, traversal_frames[k].node)
             ELSE <<>>)

\* C30: while a traversal is under way the stack holds exactly the scopes
\* of the scope-creating nodes whose subtree is being visited, so each push
\* is undone by one pop when the node's subtree is done; the stack is empty
\* when the traversal returns and when the traversal of the next file
\* begins, whatever the files before it held.
C30_StackBalancedAndLocal ==
  /\ traversal_pc \in {"start", "done"} => traversal_current_scopes = <<>>
  /\ traversal_pc = "walk" => traversal_current_scopes = open_scopes(Len(traversal_frames))

\* C30 witness: the traversal of a second file, one with nested scopes, has
\* returned: snapshots two scopes deep were recorded and the stack is empty.
C30_Witness ==
  /\ traversal_calls = 2
  /\ traversal_pc = "done"
  /\ traversal_current_scopes = <<>>
  /\ \E n \in DOMAIN traversal_scope_map : Len(traversal_scope_map[n]) >= 2
====
